---- MODULE Spec2Model ----
(***************************************************************************)
(* Model of the tree-to-IR generator of dprint-plugin-typescript           *)
(* (src/generation/generate.rs).                                           *)
(*                                                                         *)
(* The traversal is a stack machine: one frame per gen_node_with_inner_gen *)
(* invocation, each frame carrying the operations that remain to be run    *)
(* in that invocation.  A source file is a sequence of tokens, a table of  *)
(* syntax nodes over those tokens and a sequence of comments that sit in   *)
(* the gaps between tokens.  Pure helpers of the generator (string         *)
(* literals, parenthesis elision) are operators, exercised by their own    *)
(* specifications.                                                         *)
(***************************************************************************)
EXTENDS Integers, Sequences, FiniteSets, TLC

VARIABLES
  program,                 \* name of the source file being generated
  comments,                \* the comments of the file, in document order
  config,                  \* the configuration (and build profile)
  current_node,            \* Context.current_node
  parent_stack,            \* Context.parent_stack
  handled_comments,        \* Context's handled-comments set
  token_index,             \* position of the comment tracker (context.comments)
  last_generated_node_pos, \* Context.last_generated_node_pos (debug builds)
  stack,                   \* call stack of gen_node_with_inner_gen invocations
  status,                  \* "running", "done", a panic, or "idle"
  rendered,                \* comments turned into print items, in render order
  declined,                \* comments on which gen_comment returned None
  raw_nodes,               \* nodes emitted as their raw source text
  ignored,                 \* nodes generated through the ignore-comment path
  dispatched,              \* nodes in the order the order assertion sees them
  generated,               \* nodes handed to gen_node_inner
  trailing_pulled,         \* nodes whose visit pulled trailing comments
  str_in,                  \* a string literal and the quote options
  str_out,                 \* its value and its generated text
  paren_in,                \* parenthesized-expression input
  paren_out,               \* parenthesized-expression output
  unit_in,                 \* the node handed to a generator that is run alone
  unit_out                 \* what that generator produced

vars == <<program, comments, config, current_node, parent_stack,
          handled_comments, token_index, last_generated_node_pos, stack,
          status, rendered, declined, raw_nodes, ignored, dispatched,
          generated, trailing_pulled, str_in, str_out, paren_in, paren_out,
          unit_in, unit_out>>

genVars == <<program, comments, config, current_node, parent_stack,
             handled_comments, token_index, last_generated_node_pos, stack,
             status, rendered, declined, raw_nodes, ignored, dispatched,
             generated, trailing_pulled>>

strVars == <<str_in, str_out>>

parenVars == <<paren_in, paren_out>>

unitVars == <<unit_in, unit_out>>

(***************************************************************************)
(* Bounds                                                                  *)
(***************************************************************************)
\* largest number of comments in one source file
MaxComments == 2

\* largest number of characters between the quotes of a string literal
MaxStrLen == 3

\* largest number of ParenExpr nodes nested around one expression
MaxParenDepth == 2

(***************************************************************************)
(* Source files.  Token t spans [4t, 4t+2]; gap g lies between token g and *)
(* token g+1 (gap 0 is the start of the file); a comment of gap g starts   *)
(* at 4g+3.                                                                *)
(***************************************************************************)
Tk(text, line) == [text |-> text, line |-> line]

Nd(kind, first, last, parent, a, decs, tok) ==
  [kind |-> kind, first |-> first, last |-> last, parent |-> parent,
   a |-> a, decs |-> decs, tok |-> tok]

Slot(gap, kind, line) == [gap |-> gap, kind |-> kind, line |-> line]

\* a;  ;  b
StmtsFile ==
  [tokens |-> << Tk("a", 2), Tk(";", 2), Tk(";", 3), Tk("b", 5) >>,
   nodes |-> << Nd("Module", 1, 4, 0, <<2, 4, 5>>, <<>>, 0),
                Nd("ExprStmt", 1, 2, 1, <<3>>, <<>>, 0),
                Nd("Ident", 1, 1, 2, <<>>, <<>>, 0),
                Nd("EmptyStmt", 3, 3, 1, <<>>, <<>>, 0),
                Nd("ExprStmt", 4, 4, 1, <<6>>, <<>>, 0),
                Nd("Ident", 4, 4, 5, <<>>, <<>>, 0) >>,
   slots |-> << Slot(0, "Line", 1), Slot(1, "Block", 2), Slot(2, "Line", 2),
                Slot(3, "Block", 4), Slot(3, "Block", 5), Slot(4, "Block", 5),
                Slot(4, "Line", 6) >>]

\* import "b"; import "a";
ImportsFile ==
  [tokens |-> << Tk("import", 2), Tk("\"b\"", 2), Tk(";", 2),
                 Tk("import", 3), Tk("\"a\"", 3), Tk(";", 3) >>,
   nodes |-> << Nd("Module", 1, 6, 0, <<2, 4>>, <<>>, 0),
                Nd("ImportDecl", 1, 3, 1, <<3>>, <<>>, 2),
                Nd("Str", 2, 2, 2, <<>>, <<>>, 0),
                Nd("ImportDecl", 4, 6, 1, <<5>>, <<>>, 1),
                Nd("Str", 5, 5, 4, <<>>, <<>>, 0) >>,
   slots |-> << Slot(0, "Line", 1), Slot(1, "Block", 2), Slot(3, "Line", 2),
                Slot(5, "Block", 3), Slot(6, "Block", 3), Slot(6, "Line", 4) >>]

\* @d export class A { }
DecoratedClassFile ==
  [tokens |-> << Tk("@", 2), Tk("d", 2), Tk("export", 3), Tk("class", 3),
                 Tk("A", 3), Tk("{", 3), Tk("}", 4) >>,
   nodes |-> << Nd("Module", 1, 7, 0, <<2>>, <<>>, 0),
                Nd("ExportDecl", 3, 7, 1, <<3>>, <<>>, 0),
                Nd("ClassDecl", 4, 7, 2, <<6>>, <<4>>, 6),
                Nd("Decorator", 1, 2, 3, <<5>>, <<>>, 0),
                Nd("Ident", 2, 2, 4, <<>>, <<>>, 0),
                Nd("Ident", 5, 5, 3, <<>>, <<>>, 0) >>,
   slots |-> << Slot(0, "Line", 1), Slot(2, "Block", 2), Slot(2, "Block", 3),
                Slot(5, "Block", 3), Slot(6, "Line", 3), Slot(6, "Block", 4),
                Slot(7, "Line", 4) >>]

\* a + b
\*   + c;
BinExprFile ==
  [tokens |-> << Tk("a", 1), Tk("+", 1), Tk("b", 1), Tk("+", 2), Tk("c", 2),
                 Tk(";", 2) >>,
   nodes |-> << Nd("Module", 1, 6, 0, <<2>>, <<>>, 0),
                Nd("ExprStmt", 1, 6, 1, <<3>>, <<>>, 0),
                Nd("BinExpr", 1, 5, 2, <<4, 7>>, <<>>, 4),
                Nd("BinExpr", 1, 3, 3, <<5, 6>>, <<>>, 2),
                Nd("Ident", 1, 1, 4, <<>>, <<>>, 0),
                Nd("Ident", 3, 3, 4, <<>>, <<>>, 0),
                Nd("Ident", 5, 5, 3, <<>>, <<>>, 0) >>,
   slots |-> << Slot(0, "Block", 1), Slot(1, "Block", 1), Slot(2, "Block", 1),
                Slot(3, "Line", 1), Slot(3, "Block", 2), Slot(4, "Block", 2),
                Slot(5, "Block", 2), Slot(6, "Line", 2) >>]

\* with (a) b;
WithFile ==
  [tokens |-> << Tk("with", 2), Tk("(", 2), Tk("a", 2), Tk(")", 2),
                 Tk("b", 2), Tk(";", 2) >>,
   nodes |-> << Nd("Script", 1, 6, 0, <<2>>, <<>>, 0),
                Nd("WithStmt", 1, 6, 1, <<3, 4>>, <<>>, 0),
                Nd("Ident", 3, 3, 2, <<>>, <<>>, 0),
                Nd("ExprStmt", 5, 6, 2, <<5>>, <<>>, 0),
                Nd("Ident", 5, 5, 4, <<>>, <<>>, 0) >>,
   slots |-> << Slot(0, "Line", 1), Slot(2, "Block", 2), Slot(4, "Block", 2),
                Slot(6, "Block", 2), Slot(6, "Line", 3) >>]

\* type T = A | B;
TypeAliasFile ==
  [tokens |-> << Tk("type", 2), Tk("T", 2), Tk("=", 2), Tk("A", 2),
                 Tk("|", 2), Tk("B", 2), Tk(";", 2) >>,
   nodes |-> << Nd("Module", 1, 7, 0, <<2>>, <<>>, 0),
                Nd("TsTypeAliasDecl", 1, 7, 1, <<3, 4>>, <<>>, 3),
                Nd("Ident", 2, 2, 2, <<>>, <<>>, 0),
                Nd("TsUnionType", 4, 6, 2, <<5, 7>>, <<>>, 0),
                Nd("TsTypeRef", 4, 4, 4, <<6>>, <<>>, 0),
                Nd("Ident", 4, 4, 5, <<>>, <<>>, 0),
                Nd("TsTypeRef", 6, 6, 4, <<8>>, <<>>, 0),
                Nd("Ident", 6, 6, 7, <<>>, <<>>, 0) >>,
   slots |-> << Slot(0, "Line", 1), Slot(3, "Block", 2), Slot(4, "Block", 2),
                Slot(5, "Block", 2), Slot(6, "Block", 2), Slot(7, "Line", 2),
                Slot(7, "Block", 3) >>]

\* a file of comments only
EmptyFile ==
  [tokens |-> << >>,
   nodes |-> << Nd("Module", 1, 0, 0, <<>>, <<>>, 0) >>,
   slots |-> << Slot(0, "Line", 1), Slot(0, "Block", 2), Slot(0, "Block", 2),
                Slot(0, "Line", 3) >>]

FileNames ==
  {"stmts", "imports", "class", "binexpr", "with", "typealias", "empty"}

File(p) ==
  CASE p = "stmts" -> StmtsFile
    [] p = "imports" -> ImportsFile
    [] p = "class" -> DecoratedClassFile
    [] p = "binexpr" -> BinExprFile
    [] p = "with" -> WithFile
    [] p = "typealias" -> TypeAliasFile
    [] p = "empty" -> EmptyFile

Files == [p \in FileNames |-> File(p)]

Tokens == [p \in FileNames |-> Files[p].tokens]

Nodes == [p \in FileNames |-> Files[p].nodes]

\* positions (BytePos) of tokens and nodes
TokLo(t) == 4 * t

TokHi(t) == 4 * t + 2

Lo(n) == TokLo(Nodes[program][n].first)

Hi(n) == TokHi(Nodes[program][n].last)

Kind(n) == Nodes[program][n].kind

StartLine(n) == Tokens[program][Nodes[program][n].first].line

EndLine(n) == Tokens[program][Nodes[program][n].last].line

TokLine(t) == Tokens[program][t].line

NumTokens == Len(Tokens[program])

CommentLo(c) == 4 * comments[c].gap + 3

CommentIds == 1..Len(comments)

\* the line of the end of the file (one past the last token's line)
EofLine == IF NumTokens = 0 THEN 1 ELSE TokLine(NumTokens) + 1

(***************************************************************************)
(* Comment index of the parsed source: all comments between two adjacent   *)
(* tokens are the trailing comments of the first and the leading comments  *)
(* of the second.                                                          *)
(***************************************************************************)
RECURSIVE SelectIds(_, _)
SelectIds(from, gap) ==
  IF from > Len(comments) THEN <<>>
  ELSE IF comments[from].gap = gap
       THEN <<from>> \o SelectIds(from + 1, gap)
       ELSE SelectIds(from + 1, gap)

GapComments(gap) == SelectIds(1, gap)

\* pos is the start of a token
LeadingCommentsFast(pos) == GapComments(pos \div 4 - 1)

\* pos is the end of a token
TrailingCommentsFast(pos) == GapComments(pos \div 4)

\* token_finder.get_next_token_pos_after: the line of the token after pos
NextTokenLineAfter(pos) ==
  IF pos \div 4 + 1 <= NumTokens THEN TokLine(pos \div 4 + 1) ELSE EofLine

(***************************************************************************)
(* context.comments: the comment tracker.  It walks the tokens once; a     *)
(* request returns the comments of every gap it passes, so comments that   *)
(* no earlier request saw ("forgotten" ones) come with the next request.   *)
(* Both operators return [cs |-> comments, ti |-> new token index].        *)
(***************************************************************************)
RECURSIVE LeadingLoop(_, _, _)
LeadingLoop(pos, ti, acc) ==
  IF ti + 1 > NumTokens THEN [cs |-> acc, ti |-> ti]
  ELSE LET t == ti + 1
           got == acc \o LeadingCommentsFast(TokLo(t))
       IN IF TokHi(t) < pos
          THEN LeadingLoop(pos, ti + 1, got \o TrailingCommentsFast(TokHi(t)))
          ELSE [cs |-> got, ti |-> ti]

LeadingCommentsWithPrevious(pos, ti) ==
  LeadingLoop(pos, ti,
              IF ti = 0 THEN <<>> ELSE TrailingCommentsFast(TokHi(ti)))

RECURSIVE TrailingLoop(_, _, _)
TrailingLoop(end, ti, acc) ==
  IF ti + 1 > NumTokens THEN [cs |-> acc, ti |-> ti]
  ELSE LET t == ti + 1
           got == acc \o LeadingCommentsFast(TokLo(t))
           is_comma == Tokens[program][t].text = ","
       IN IF ~is_comma /\ TokLo(t) >= end
          THEN [cs |-> got, ti |-> ti]
          ELSE IF is_comma \/ TokHi(t) <= end
               THEN TrailingLoop(end, ti + 1,
                                 got \o TrailingCommentsFast(TokHi(t)))
               ELSE [cs |-> got, ti |-> ti]

TrailingCommentsWithPrevious(end, ti) == TrailingLoop(end, ti, <<>>)

(***************************************************************************)
(* Comment generation.  The functions thread st = [h, r, d]: the handled   *)
(* set of the context, the comments rendered so far, and the comments on   *)
(* which gen_comment returned None.                                        *)
(***************************************************************************)
HasHandledComment(c, st) == c \in st.h

MarkCommentHandled(c, st) == [st EXCEPT !.h = @ \cup {c}]

GenCommentUnguarded(c, st) ==
  [h |-> st.h \cup {c}, r |-> Append(st.r, c), d |-> st.d]

\* a call on a handled comment returns None: the comment is noted in d
GenComment(c, st) ==
  IF HasHandledComment(c, st) THEN [st EXCEPT !.d = @ \cup {c}]
  ELSE [h |-> st.h \cup {c}, r |-> Append(st.r, c), d |-> st.d]

GenCommentBasedOnLastNode(c, st) == GenComment(c, st)

RECURSIVE GenCommentCollection(_, _)
GenCommentCollection(cs, st) ==
  IF cs = <<>> THEN st
  ELSE GenCommentCollection(Tail(cs),
         IF HasHandledComment(Head(cs), st) THEN st
         ELSE GenCommentBasedOnLastNode(Head(cs), st))

RECURSIVE GenCommentsAsStatements(_, _)
GenCommentsAsStatements(cs, st) ==
  IF cs = <<>> THEN st
  ELSE GenCommentsAsStatements(Tail(cs),
         IF HasHandledComment(Head(cs), st) THEN st
         ELSE GenCommentBasedOnLastNode(Head(cs), st))

GenCommentsAsLeading(cs, st) == GenCommentCollection(cs, st)

\* take_while over a comment sequence
RECURSIVE TakeWhilePrevLines(_, _)
TakeWhilePrevLines(cs, line) ==
  IF cs = <<>> THEN <<>>
  ELSE IF comments[Head(cs)].kind = "Line" \/ comments[Head(cs)].line < line
       THEN <<Head(cs)>> \o TakeWhilePrevLines(Tail(cs), line)
       ELSE <<>>

\* pos is the start of a token on line `line`
GetLeadingCommentsOnPreviousLines(pos, line) ==
  TakeWhilePrevLines(LeadingCommentsFast(pos), line)

\* a span is [first, last]: the tokens it covers
SpanOf(n) == [first |-> Nodes[program][n].first, last |-> Nodes[program][n].last]

TokSpan(t) == [first |-> t, last |-> t]

SpanEndLine(sp) == TokLine(sp.last)

SpanHi(sp) == TokHi(sp.last)

GetTrailingCommentsSameLine(sp, cs) ==
  LET node_end_line == SpanEndLine(sp)
      same == SelectSeq(cs, LAMBDA c : comments[c].line <= node_end_line)
      is_comma(t) == t <= NumTokens /\ Tokens[program][t].text = ","
      comma_tok == IF sp.first = sp.last /\ is_comma(sp.last) THEN sp.last
                   ELSE IF is_comma(sp.last + 1) THEN sp.last + 1 ELSE 0
  IN IF same = <<>> THEN same
     ELSE IF comma_tok # 0
             /\ NextTokenLineAfter(TokHi(comma_tok)) = node_end_line
          THEN SelectSeq(same, LAMBDA c : CommentLo(c) < TokHi(comma_tok))
          ELSE same

GenCommentsAsTrailing(sp, cs, st) ==
  IF cs = <<>> THEN st
  ELSE GenCommentCollection(GetTrailingCommentsSameLine(sp, cs), st)

GenLeadingComments(pos, st) ==
  GenCommentsAsLeading(LeadingCommentsFast(pos), st)

GenTrailingComments(sp, st) ==
  GenCommentsAsTrailing(sp, TrailingCommentsFast(SpanHi(sp)), st)

GetTrailingCommentsAsStatements(sp, st) ==
  SelectSeq(TrailingCommentsFast(SpanHi(sp)),
            LAMBDA c : ~HasHandledComment(c, st)
                       /\ SpanEndLine(sp) < comments[c].line)

GenTrailingCommentsAsStatements(sp, st) ==
  GenCommentsAsStatements(GetTrailingCommentsAsStatements(sp, st), st)

\* pos is the end of a token
GetCommentsBetweenLines(pos, st) ==
  SelectSeq(TrailingCommentsFast(pos),
            LAMBDA c : ~HasHandledComment(c, st)
                       /\ comments[c].line < NextTokenLineAfter(pos))

GenCommentsBetweenLinesIndented(pos, st) ==
  GenCommentCollection(GetCommentsBetweenLines(pos, st), st)

GenFirstLineTrailingComment(open_token_start_line, cs, st) ==
  IF cs # <<>> /\ comments[Head(cs)].kind = "Line"
     /\ comments[Head(cs)].line = open_token_start_line
  THEN GenComment(Head(cs), st)
  ELSE st

RECURSIVE GenEach(_, _)
GenEach(cs, st) ==
  IF cs = <<>> THEN st ELSE GenEach(Tail(cs), GenComment(Head(cs), st))

GenOpComments(cs, st) == GenEach(cs, st)

TextHasDprintIgnore(c) == comments[c].ignore

GetHasIgnoreCommentNever(cs) == FALSE

GetHasIgnoreComment(cs) ==
  \E i \in 1..Len(cs) : TextHasDprintIgnore(cs[i])

(***************************************************************************)
(* Operations of a generator.  A generator's body is the sequence of the   *)
(* state-changing calls it makes, in order; the text it pushes between     *)
(* them is not modelled.                                                   *)
(***************************************************************************)
Op(op, n, t, inner) == [op |-> op, n |-> n, t |-> t, inner |-> inner]

Visit(n) == Op("visit", n, 0, <<>>)

RECURSIVE VisitAll(_)
VisitAll(ns) ==
  IF ns = <<>> THEN <<>> ELSE <<Visit(Head(ns))>> \o VisitAll(Tail(ns))

Child(n, i) == Nodes[program][n].a[i]

Children(n) == Nodes[program][n].a

\* gen_decorators: each decorator, then the comments before the next token
GenDecorators(decs) ==
  IF decs = <<>> THEN <<>>
  ELSE VisitAll(decs)
       \o <<Op("decorators_end", decs[Len(decs)], 0, <<>>)>>

\* decorators of an exported class start before the export declaration
HandleDecoratorsIfNecessary(n) ==
  IF Kind(n) \in {"ExportDecl", "ExportDefaultDecl"}
     /\ Kind(Child(n, 1)) \in {"ClassDecl", "ClassExpr"}
  THEN GenDecorators(Nodes[program][Child(n, 1)].decs)
  ELSE <<>>

(***************************************************************************)
(* Statement groups and their sorting                                      *)
(***************************************************************************)
StmtGroupKind(n) ==
  CASE Kind(n) = "ImportDecl" -> "Imports"
    [] Kind(n) = "ExportAll" -> "Exports"
    [] OTHER -> "Other"

\* is_same_group of get_stmt_groups that lets one line lie between
IsSameGroupOverOneLine(group_kind, stmt_group_kind, last_end_line, start_line) ==
  /\ group_kind = stmt_group_kind
  /\ (stmt_group_kind = "Other" \/ last_end_line = 0
      \/ last_end_line + 2 >= start_line)

\* is_same_group of get_stmt_groups; last_end_line = 0 stands for None
IsSameGroup(group_kind, stmt_group_kind, last_end_line, start_line) ==
  /\ group_kind = stmt_group_kind
  /\ (stmt_group_kind = "Other" \/ last_end_line = 0
      \/ last_end_line + 1 >= start_line)

\* last_end_line = 0 stands for None
RECURSIVE GetStmtGroupsLoop(_, _, _)
GetStmtGroupsLoop(stmts, groups, last_end_line) ==
  IF stmts = <<>> THEN groups
  ELSE LET s == Head(stmts)
           k == StmtGroupKind(s)
           previous_last_end_line == IF k = "Other" THEN 0 ELSE EndLine(s)
           is_same_group ==
             /\ groups # <<>>
             /\ IsSameGroup(groups[Len(groups)].kind, k, last_end_line,
                            StartLine(s))
       IN GetStmtGroupsLoop(
            Tail(stmts),
            IF is_same_group
            THEN [groups EXCEPT ![Len(groups)].nodes = Append(@, s)]
            ELSE Append(groups, [kind |-> k, nodes |-> <<s>>]),
            previous_last_end_line)

GetStmtGroups(stmts) == GetStmtGroupsLoop(stmts, <<>>, 0)

\* the order of two module specifiers
SpecifierRank(text) ==
  CASE text = "\"a\"" -> 1
    [] text = "\"b\"" -> 2
    [] OTHER -> 3

SortKey(n) == SpecifierRank(Tokens[program][Nodes[program][Child(n, 1)].first].text)

GetNodeSorter(group_kind) ==
  group_kind = "Imports" /\ config.sort_imports # "maintain"

\* old index -> new index
GetSortedIndexes(nodes) ==
  [i \in 1..Len(nodes) |->
     1 + Cardinality({j \in 1..Len(nodes) :
                        \/ SortKey(nodes[j]) < SortKey(nodes[i])
                        \/ SortKey(nodes[j]) = SortKey(nodes[i]) /\ j < i})]

SortBySortedIndexes(items, sorted_indexes) ==
  [k \in 1..Len(items) |->
     items[CHOOSE i \in 1..Len(items) : sorted_indexes[i] = k]]

VisitOrderSorted(nodes, sorted_indexes) ==
  SortBySortedIndexes(nodes, sorted_indexes)

\* the statements of a group are generated in the order of the source
VisitOrder(nodes, sorted_indexes) == nodes

StatementOp(n) ==
  IF Kind(n) = "EmptyStmt" THEN Op("empty_stmt", n, 0, <<>>) ELSE Visit(n)

RECURSIVE StatementOps(_)
StatementOps(ns) ==
  IF ns = <<>> THEN <<>>
  ELSE <<StatementOp(Head(ns))>> \o StatementOps(Tail(ns))

GroupOps(group) ==
  (IF group.kind \in {"Imports", "Exports"}
   THEN <<Op("group_leading", group.nodes[1], 0, <<>>)>> ELSE <<>>)
  \o StatementOps(
       VisitOrder(group.nodes,
                  IF GetNodeSorter(group.kind)
                  THEN GetSortedIndexes(group.nodes)
                  ELSE [i \in 1..Len(group.nodes) |-> i]))

RECURSIVE AllGroupOps(_)
AllGroupOps(groups) ==
  IF groups = <<>> THEN <<>>
  ELSE GroupOps(Head(groups)) \o AllGroupOps(Tail(groups))

\* the statement gen_statements holds as last_node when its loop ends: the
\* last statement, be it empty or not
LastNode(stmts) == IF stmts = <<>> THEN 0 ELSE stmts[Len(stmts)]

GenStatements(stmts) ==
  AllGroupOps(GetStmtGroups(stmts))
  \o <<Op("statements_end", LastNode(stmts), 0, <<>>)>>

(***************************************************************************)
(* Binary expressions are generated flattened: the operands of a chain     *)
(* are visited from the outermost expression, each with the operator that  *)
(* precedes it (pre_op) or follows it (post_op).                           *)
(***************************************************************************)
BinExprItem(expr) == [expr |-> expr, pre_op |-> 0, post_op |-> 0]

RECURSIVE GetFlattenedBinExpr(_)
GetFlattenedBinExpr(n) ==
  LET left == Child(n, 1)
      right == Child(n, 2)
      operator_token == Nodes[program][n].tok
      is_op_same_line ==
        CASE config.operator_position = "sameLine" -> TRUE
          [] config.operator_position = "nextLine" -> FALSE
          [] OTHER -> EndLine(left) = TokLine(operator_token)
      litems == IF Kind(left) = "BinExpr" THEN GetFlattenedBinExpr(left)
                ELSE <<BinExprItem(left)>>
      ritems == IF Kind(right) = "BinExpr" THEN GetFlattenedBinExpr(right)
                ELSE <<BinExprItem(right)>>
  IN IF is_op_same_line
     THEN [litems EXCEPT ![Len(litems)].post_op = operator_token] \o ritems
     ELSE litems \o [ritems EXCEPT ![1].pre_op = operator_token]

BinExprItemOps(item) ==
  (IF item.pre_op # 0 THEN <<Op("pre_op", 0, item.pre_op, <<>>)>> ELSE <<>>)
  \o <<Op("visit", item.expr, 0,
          IF item.post_op # 0 THEN <<Op("post_op", 0, item.post_op, <<>>)>>
          ELSE <<>>)>>

RECURSIVE BinExprItemsOps(_)
BinExprItemsOps(items) ==
  IF items = <<>> THEN <<>>
  ELSE BinExprItemOps(Head(items)) \o BinExprItemsOps(Tail(items))

GenBinaryExpr(n) == BinExprItemsOps(GetFlattenedBinExpr(n))

\* the block comments of a sequence that start on the given line
BlockOnLine(cs, line) ==
  SelectSeq(cs, LAMBDA c : comments[c].kind = "Block" /\ comments[c].line = line)

OnLine(cs, line) == SelectSeq(cs, LAMBDA c : comments[c].line = line)

\* token_finder.get_previous_token_if_operator: 0 stands for None
GetPreviousTokenIfOperator(n, separator) ==
  LET t == Nodes[program][n].first - 1
  IN IF t >= 1 /\ Tokens[program][t].text = separator THEN t ELSE 0

UnionTypeOps(type_node) ==
  LET separator_token == GetPreviousTokenIfOperator(type_node, "|")
  IN IF separator_token = 0 THEN <<Visit(type_node)>>
     ELSE <<Op("separator_leading", 0, separator_token, <<>>),
            Op("separator_trailing", 0, separator_token, <<>>),
            Visit(type_node)>>

RECURSIVE GenUnionOrIntersectionType(_)
GenUnionOrIntersectionType(types) ==
  IF types = <<>> THEN <<>>
  ELSE UnionTypeOps(Head(types)) \o GenUnionOrIntersectionType(Tail(types))

\* gen_assignment: the operator is the token before the expression
GenAssignment(expr) ==
  <<Op("between_lines", 0, Nodes[program][expr].first - 1, <<>>), Visit(expr)>>

GenClassDeclOrExpr(n) ==
  (IF Kind(Nodes[program][n].parent) \notin {"ExportDecl", "ExportDefaultDecl"}
   THEN GenDecorators(Nodes[program][n].decs) ELSE <<>>)
  \o VisitAll(Children(n))
  \o <<Op("membered_body", n, Nodes[program][n].tok, <<>>)>>

UnexpectedKinds == {"Class", "Function", "Invalid", "WithStmt", "TsModuleBlock"}

\* gen_node_inner: the calls of the generator of the node's kind
GenNodeInner(n) ==
  CASE Kind(n) \in {"Module", "Script"} -> GenStatements(Children(n))
    [] Kind(n) \in {"ExprStmt", "ImportDecl", "ExportDecl", "Decorator",
                    "TsTypeRef"} -> VisitAll(Children(n))
    [] Kind(n) \in {"Ident", "Str"} -> <<>>
    [] Kind(n) = "ClassDecl" -> GenClassDeclOrExpr(n)
    [] Kind(n) = "BinExpr" -> GenBinaryExpr(n)
    [] Kind(n) = "TsTypeAliasDecl" ->
         <<Visit(Child(n, 1))>> \o GenAssignment(Child(n, 2))
    [] Kind(n) = "TsUnionType" -> GenUnionOrIntersectionType(Children(n))
    [] Kind(n) \in UnexpectedKinds -> <<Op("unexpected", n, 0, <<>>)>>

GetFirstChildOwnsLeadingCommentsOnSameLine(n) ==
  /\ Kind(n) \in {"TsUnionType", "TsIntersectionType"}
  /\ BlockOnLine(LeadingCommentsFast(Lo(n)), StartLine(n)) # <<>>

(***************************************************************************)
(* Initial states: a source file, its comments, a configuration, and the   *)
(* context as Context::new leaves it.                                      *)
(***************************************************************************)
RECURSIVE MakeComments(_, _, _, _)
MakeComments(slots, i, chosen, ig) ==
  IF i > Len(slots) THEN <<>>
  ELSE (IF i \in chosen
        THEN <<[gap |-> slots[i].gap, kind |-> slots[i].kind,
                line |-> slots[i].line, ignore |-> (i = ig)]>>
        ELSE <<>>)
       \o MakeComments(slots, i + 1, chosen, ig)

CommentChoices(p) ==
  LET slots == Files[p].slots
      sets == {S \in SUBSET (1..Len(slots)) : Cardinality(S) <= MaxComments}
  IN UNION {{MakeComments(slots, 1, S, ig) : ig \in S \cup {0}} : S \in sets}

\* an option that no generator of the file reads keeps its default
OperatorPositions(p) ==
  IF p = "binexpr" THEN {"sameLine", "nextLine", "maintain"} ELSE {"nextLine"}

SortOrders(p) ==
  IF p = "imports" THEN {"maintain", "caseInsensitive"} ELSE {"caseInsensitive"}

Configs(p) ==
  [debug : BOOLEAN, operator_position : OperatorPositions(p),
   sort_imports : SortOrders(p)]

NoStr == [raw |-> <<>>]

NoParen == [expr |-> "none"]

NoUnit == [fn |-> "none"]

Init ==
  /\ program \in FileNames
  /\ comments \in CommentChoices(program)
  /\ config \in Configs(program)
  /\ current_node = 1
  /\ parent_stack = <<>>
  /\ handled_comments = {}
  /\ token_index = 0
  /\ last_generated_node_pos = 0
  /\ stack = <<[node |-> 0, ops |-> <<Visit(1), Op("finish", 0, 0, <<>>)>>,
                inner |-> <<>>, past_current_node |-> 0,
                has_ignore_comment |-> FALSE, entry_stack |-> <<>>]>>
  /\ status = "running"
  /\ rendered = <<>>
  /\ declined = {}
  /\ raw_nodes = {}
  /\ ignored = {}
  /\ dispatched = <<>>
  /\ generated = {}
  /\ trailing_pulled = {}
  /\ str_in = NoStr
  /\ str_out = NoStr
  /\ paren_in = NoParen
  /\ paren_out = NoParen
  /\ unit_in = NoUnit
  /\ unit_out = NoUnit

(***************************************************************************)
(* The traversal                                                           *)
(***************************************************************************)
Running == status = "running" /\ stack # <<>>

Top == Head(stack)

NextOp == Head(Top.ops)

At(op) == Running /\ Top.ops # <<>> /\ NextOp.op = op

\* the call stack with the current operation of the top frame done
Advance == [stack EXCEPT ![1].ops = Tail(@)]

St == [h |-> handled_comments, r |-> rendered, d |-> declined]

\* the comment state after a step
Comments(st) ==
  handled_comments' = st.h /\ rendered' = st.r /\ declined' = st.d

pureVars == <<str_in, str_out, paren_in, paren_out, unit_in, unit_out>>

\* gen_node_with_inner_gen, entry: store info, decorators come first
GenNodeCall ==
  /\ At("visit")
  /\ stack' = <<[node |-> NextOp.n,
                 ops |-> HandleDecoratorsIfNecessary(NextOp.n)
                         \o <<Op("leading", NextOp.n, 0, <<>>)>>,
                 inner |-> NextOp.inner,
                 past_current_node |-> current_node,
                 has_ignore_comment |-> FALSE,
                 entry_stack |-> parent_stack]>> \o Advance
  /\ current_node' = NextOp.n
  /\ parent_stack' = Append(parent_stack, current_node)
  /\ UNCHANGED <<program, comments, config, handled_comments, token_index,
                 last_generated_node_pos, status, rendered, declined,
                 raw_nodes, ignored, dispatched, generated, trailing_pulled,
                 pureVars>>

AssertGeneratedInOrder(n) == last_generated_node_pos <= Lo(n)

\* gen_node_with_inner_gen: order assertion, leading comments, dispatch
GenNodeLeading ==
  /\ At("leading")
  /\ LET n == Top.node
         owns == GetFirstChildOwnsLeadingCommentsOnSameLine(n)
         is_program == Kind(n) \in {"Module", "Script"}
         got == LeadingCommentsWithPrevious(Lo(n), token_index)
         leading_comments ==
           IF is_program THEN <<>>
           ELSE IF owns THEN LeadingCommentsFast(Lo(n)) ELSE got.cs
         has_ignore_comment == GetHasIgnoreComment(leading_comments)
         st == IF is_program THEN St
               ELSE IF owns
                    THEN GenCommentCollection(
                           TakeWhilePrevLines(leading_comments, StartLine(n)),
                           St)
                    ELSE GenCommentsAsLeading(leading_comments, St)
     IN IF config.debug /\ ~AssertGeneratedInOrder(n)
        THEN /\ status' = "out_of_order"
             /\ UNCHANGED <<stack, handled_comments, rendered, declined,
                            token_index,
                            last_generated_node_pos, raw_nodes, ignored,
                            dispatched, generated>>
        ELSE /\ status' = status
             /\ last_generated_node_pos' =
                  IF config.debug THEN Lo(n) ELSE last_generated_node_pos
             /\ dispatched' = Append(dispatched, n)
             /\ token_index' =
                  IF is_program \/ owns THEN token_index ELSE got.ti
             /\ Comments(st)
             /\ IF has_ignore_comment
                THEN /\ raw_nodes' = raw_nodes \cup {n}
                     /\ ignored' = ignored \cup {n}
                     /\ generated' = generated
                     /\ stack' = [stack EXCEPT
                          ![1].has_ignore_comment = TRUE,
                          ![1].ops = Top.inner
                                     \o <<Op("mark_handled", n, 0, <<>>),
                                          Op("trailing", n, 0, <<>>)>>]
                ELSE /\ generated' = generated \cup {n}
                     /\ UNCHANGED <<raw_nodes, ignored>>
                     /\ stack' = [stack EXCEPT
                          ![1].ops = GenNodeInner(n) \o Top.inner
                                     \o <<Op("trailing", n, 0, <<>>)>>]
  /\ UNCHANGED <<program, comments, config, current_node, parent_stack,
                 trailing_pulled, pureVars>>

Range(seq) == {seq[i] : i \in 1..Len(seq)}

\* gen_node_with_inner_gen, ignore path: comments inside the raw text are
\* marked handled
IgnoreMarkHandled ==
  /\ At("mark_handled")
  /\ LET node_hi == Hi(Top.node)
         got == TrailingCommentsWithPrevious(node_hi, token_index)
     IN /\ token_index' = got.ti
        /\ handled_comments' = handled_comments
             \cup {c \in Range(got.cs) : CommentLo(c) < node_hi}
  /\ stack' = Advance
  /\ UNCHANGED <<program, comments, config, current_node, parent_stack,
                 last_generated_node_pos, status, rendered, declined,
                 raw_nodes, ignored, dispatched, generated, trailing_pulled,
                 pureVars>>

\* gen_node_inner on a kind that has no generator
UnexpectedKind ==
  /\ At("unexpected")
  /\ IF config.debug
     THEN status' = "unexpected_kind" /\ UNCHANGED <<stack, raw_nodes>>
     ELSE /\ raw_nodes' = raw_nodes \cup {NextOp.n}
          /\ stack' = Advance
          /\ status' = status
  /\ UNCHANGED <<program, comments, config, current_node, parent_stack,
                 handled_comments, token_index, last_generated_node_pos,
                 rendered, declined, ignored, dispatched, generated,
                 trailing_pulled, pureVars>>

ShouldGenTrailingAlways(node_hi, parent_hi, parent_kind) == TRUE

ShouldGenTrailing(node_hi, parent_hi, parent_kind) ==
  node_hi # parent_hi \/ parent_kind \in {"Module", "Script"}

RestoreContextNoPop(ps) ==
  [current_node |-> ps[Len(ps)], parent_stack |-> ps]

\* context.current_node = context.parent_stack.pop()
RestoreContext(ps) ==
  [current_node |-> ps[Len(ps)], parent_stack |-> SubSeq(ps, 1, Len(ps) - 1)]

\* gen_node_with_inner_gen, exit: trailing comments, pop info
GenNodeTrailing ==
  /\ At("trailing")
  /\ LET n == Top.node
         parent == parent_stack[Len(parent_stack)]
         parent_hi == Hi(Top.past_current_node)
         pull == ShouldGenTrailing(Hi(n), parent_hi, Kind(parent))
         got == TrailingCommentsWithPrevious(Hi(n), token_index)
         st == IF pull THEN GenCommentsAsTrailing(SpanOf(n), got.cs, St)
               ELSE St
         ctx == RestoreContext(parent_stack)
     IN /\ token_index' = IF pull THEN got.ti ELSE token_index
        /\ Comments(st)
        /\ trailing_pulled' =
             IF pull
             THEN trailing_pulled \cup {[node |-> n, parent |-> parent]}
             ELSE trailing_pulled
        /\ current_node' = ctx.current_node
        /\ parent_stack' = ctx.parent_stack
  /\ stack' = Tail(stack)
  /\ UNCHANGED <<program, comments, config, last_generated_node_pos, status,
                 raw_nodes, ignored, dispatched, generated, pureVars>>

\* what a step that only generates comments leaves alone
commentStepFrame == <<program, comments, config, current_node, parent_stack,
                      token_index, last_generated_node_pos, status, raw_nodes,
                      ignored, dispatched, generated, trailing_pulled,
                      pureVars>>

\* gen_decorators: the comments between the last decorator and the next token
GenDecoratorsEnd ==
  /\ At("decorators_end")
  /\ Comments(GenLeadingComments(TokLo(Nodes[program][NextOp.n].last + 1), St))
  /\ stack' = Advance
  /\ UNCHANGED commentStepFrame

\* gen_binary_expr: the comments around an operator that precedes its operand
GenPreOpComments ==
  /\ At("pre_op")
  /\ LET t == NextOp.t
         st1 == GenOpComments(
                  BlockOnLine(LeadingCommentsFast(TokLo(t)), TokLine(t)), St)
     IN Comments(GenOpComments(
                   BlockOnLine(TrailingCommentsFast(TokHi(t)), TokLine(t)),
                   st1))
  /\ stack' = Advance
  /\ UNCHANGED commentStepFrame

\* gen_binary_expr: the comments around an operator that follows its operand
GenPostOpComments ==
  /\ At("post_op")
  /\ LET t == NextOp.t
         st1 == GenOpComments(
                  BlockOnLine(LeadingCommentsFast(TokLo(t)), TokLine(t)), St)
     IN Comments(GenOpComments(
                   OnLine(TrailingCommentsFast(TokHi(t)), TokLine(t)), st1))
  /\ stack' = Advance
  /\ UNCHANGED commentStepFrame

\* gen_union_or_intersection_type: gen_leading_comments(separator_token)
GenSeparatorLeading ==
  /\ At("separator_leading")
  /\ Comments(GenLeadingComments(TokLo(NextOp.t), St))
  /\ stack' = Advance
  /\ UNCHANGED commentStepFrame

\* gen_union_or_intersection_type: gen_trailing_comments(separator_token)
GenSeparatorTrailing ==
  /\ At("separator_trailing")
  /\ Comments(GenTrailingComments(TokSpan(NextOp.t), St))
  /\ stack' = Advance
  /\ UNCHANGED commentStepFrame

\* gen_assignment_like_with_token: the comments after the operator
GenOpTrailingComments ==
  /\ At("between_lines")
  /\ Comments(GenCommentsBetweenLinesIndented(TokHi(NextOp.t), St))
  /\ stack' = Advance
  /\ UNCHANGED commentStepFrame

\* gen_statements: the leading comments of an import or export group
GenGroupLeading ==
  /\ At("group_leading")
  /\ Comments(GenCommentsAsStatements(
                GetLeadingCommentsOnPreviousLines(Lo(NextOp.n),
                                                  StartLine(NextOp.n)), St))
  /\ stack' = Advance
  /\ UNCHANGED commentStepFrame

\* gen_statements: an empty statement is not visited; its comments are
GenEmptyStmt ==
  /\ At("empty_stmt")
  /\ LET n == NextOp.n
         st1 == GenCommentsAsStatements(LeadingCommentsFast(Lo(n)), St)
         trailing_comments ==
           GetTrailingCommentsSameLine(SpanOf(n), TrailingCommentsFast(Hi(n)))
     IN Comments(IF trailing_comments # <<>>
                 THEN GenCommentCollection(trailing_comments, st1)
                 ELSE st1)
  /\ stack' = Advance
  /\ UNCHANGED commentStepFrame

\* gen_statements: the comments after the last statement, or all comments
\* of a file without statements
GenStatementsEnd ==
  /\ At("statements_end")
  /\ Comments(IF NextOp.n # 0
              THEN GenTrailingCommentsAsStatements(SpanOf(NextOp.n), St)
              ELSE GenCommentsAsStatements(GapComments(NumTokens), St))
  /\ stack' = Advance
  /\ UNCHANGED commentStepFrame

\* gen_membered_body of a body without members: gen_surrounded_by_tokens
GenMemberedBody ==
  /\ At("membered_body")
  /\ LET open == NextOp.t
         close == Nodes[program][NextOp.n].last
         is_single_line == TokLine(open) = TokLine(close)
         cs == TrailingCommentsFast(TokHi(open))
         st1 == GenLeadingComments(TokLo(open), St)
         st2 == IF cs # <<>> /\ ~is_single_line
                THEN GenFirstLineTrailingComment(TokLine(open), cs, st1)
                ELSE st1
     IN Comments(IF \E i \in 1..Len(cs) : ~HasHandledComment(cs[i], st2)
                 THEN IF is_single_line THEN GenEach(cs, st2)
                      ELSE GenCommentsAsStatements(cs, st2)
                 ELSE st2)
  /\ stack' = Advance
  /\ UNCHANGED commentStepFrame

\* generate: the program's visit has returned
GenerateFinish ==
  /\ At("finish")
  /\ status' = "done"
  /\ stack' = <<>>
  /\ UNCHANGED <<program, comments, config, current_node, parent_stack,
                 handled_comments, token_index, last_generated_node_pos,
                 rendered, declined, raw_nodes, ignored, dispatched,
                 generated, trailing_pulled, pureVars>>

Next ==
  \/ GenNodeCall
  \/ GenNodeLeading
  \/ IgnoreMarkHandled
  \/ UnexpectedKind
  \/ GenNodeTrailing
  \/ GenDecoratorsEnd
  \/ GenPreOpComments
  \/ GenPostOpComments
  \/ GenSeparatorLeading
  \/ GenSeparatorTrailing
  \/ GenOpTrailingComments
  \/ GenGroupLeading
  \/ GenEmptyStmt
  \/ GenStatementsEnd
  \/ GenMemberedBody
  \/ GenerateFinish

Spec == Init /\ [][Next]_vars

(***************************************************************************)
(* String literals.  A string is a sequence of characters; the characters  *)
(* that matter are the two quotes, the backslash and any other character.  *)
(***************************************************************************)
DQ == "dq"

SQ == "sq"

BS == "bs"

Chars == {DQ, SQ, BS, "a"}

\* str::replace: every non-overlapping occurrence, from the left
RECURSIVE Replace(_, _, _)
Replace(text, from, to) ==
  IF Len(text) < Len(from) THEN text
  ELSE IF SubSeq(text, 1, Len(from)) = from
       THEN to \o Replace(SubSeq(text, Len(from) + 1, Len(text)), from, to)
       ELSE <<Head(text)>> \o Replace(Tail(text), from, to)

RECURSIVE RemoveLoop(_, _, _)
RemoveLoop(text, new_string, was_last_backslash) ==
  IF text = <<>> THEN new_string
  ELSE LET c == Head(text)
       IN IF c = BS /\ ~was_last_backslash
          THEN RemoveLoop(Tail(text), new_string, TRUE)
          ELSE RemoveLoop(
                 Tail(text),
                 (IF was_last_backslash /\ c # SQ /\ c # DQ
                  THEN Append(new_string, BS) ELSE new_string) \o <<c>>,
                 FALSE)

\* a pass that leaves every backslash where it is
KeepQuoteBackslashes(text) == text

RemoveNeedlessQuoteBackslashes(text) == RemoveLoop(text, <<>>, FALSE)

\* raw_string_text is the literal with its quotes
GetStringValue(raw_string_text) ==
  LET string_value == SubSeq(raw_string_text, 2, Len(raw_string_text) - 1)
      is_double_quote == Head(raw_string_text) = DQ
  IN IF is_double_quote
     THEN RemoveNeedlessQuoteBackslashes(Replace(string_value, <<BS, DQ>>, <<DQ>>))
     ELSE RemoveNeedlessQuoteBackslashes(Replace(string_value, <<BS, SQ>>, <<SQ>>))

RECURSIVE CountChar(_, _)
CountChar(text, c) ==
  IF text = <<>> THEN 0
  ELSE (IF Head(text) = c THEN 1 ELSE 0) + CountChar(Tail(text), c)

DoubleToSingle(string_value) ==
  CountChar(string_value, DQ) - CountChar(string_value, SQ)

\* the value between double quotes, nothing escaped
FormatWithDoubleBare(string_value) == <<DQ>> \o string_value \o <<DQ>>

FormatWithDouble(string_value) ==
  <<DQ>> \o Replace(string_value, <<DQ>>, <<BS, DQ>>) \o <<DQ>>

FormatWithSingle(string_value) ==
  <<SQ>> \o Replace(string_value, <<SQ>>, <<BS, SQ>>) \o <<SQ>>

HandlePreferDoubleStrict(string_value) ==
  IF DoubleToSingle(string_value) < 0 THEN FormatWithDouble(string_value)
  ELSE FormatWithSingle(string_value)

HandlePreferDouble(string_value) ==
  IF DoubleToSingle(string_value) <= 0 THEN FormatWithDouble(string_value)
  ELSE FormatWithSingle(string_value)

HandlePreferSingle(string_value) ==
  IF DoubleToSingle(string_value) >= 0 THEN FormatWithSingle(string_value)
  ELSE FormatWithDouble(string_value)

GetStringLiteralText(string_value, is_jsx_attribute, cfg) ==
  IF is_jsx_attribute
  THEN IF cfg.jsx_quote_style = "preferDouble"
       THEN HandlePreferDouble(string_value)
       ELSE HandlePreferSingle(string_value)
  ELSE CASE cfg.quote_style = "alwaysDouble" -> FormatWithDouble(string_value)
         [] cfg.quote_style = "alwaysSingle" -> FormatWithSingle(string_value)
         [] cfg.quote_style = "preferDouble" -> HandlePreferDouble(string_value)
         [] cfg.quote_style = "preferSingle" -> HandlePreferSingle(string_value)

\* the string literals of a source file: between the quotes no bare
\* delimiter and no bare line end; outside JSX a backslash takes the next
\* character with it, in a JSX attribute it is an ordinary character
RECURSIVE IsLiteralBody(_, _, _)
IsLiteralBody(body, quote, jsx) ==
  IF body = <<>> THEN TRUE
  ELSE IF Head(body) = quote THEN FALSE
       ELSE IF Head(body) = BS /\ ~jsx
            THEN Len(body) >= 2 /\ IsLiteralBody(Tail(Tail(body)), quote, jsx)
            ELSE IsLiteralBody(Tail(body), quote, jsx)

Bodies == UNION {[1..k -> Chars] : k \in 0..MaxStrLen}

StrInputs ==
  {[raw |-> <<q>> \o b \o <<q>>, jsx |-> j, quote_style |-> qs,
    jsx_quote_style |-> js] :
     q \in {DQ, SQ}, b \in Bodies, j \in BOOLEAN,
     qs \in {"alwaysDouble", "alwaysSingle", "preferDouble", "preferSingle"},
     js \in {"preferDouble", "preferSingle"}}

\* an option the literal's generator does not read keeps its default
ValidStrInput(i) ==
  /\ IsLiteralBody(SubSeq(i.raw, 2, Len(i.raw) - 1), Head(i.raw), i.jsx)
  /\ (i.jsx => i.quote_style = "preferDouble")
  /\ (~i.jsx => i.jsx_quote_style = "preferDouble")

(***************************************************************************)
(* Parenthesized expressions.  An input is one expression of the file: an  *)
(* innermost expression, the ParenExpr nodes written around it (parens[1]  *)
(* is the outermost), the node the outermost ParenExpr hangs under (site)  *)
(* and the node above that one (top).                                      *)
(***************************************************************************)
ExprKinds ==
  {"ArrowExpr", "FnExpr", "ObjectLit", "ArrayLit", "SeqExpr", "AssignExpr",
   "JSXElement", "Ident"}

ContinuingSites ==
  {[kind |-> "CallExpr", slot |-> "callee"],
   [kind |-> "NewExpr", slot |-> "callee"],
   [kind |-> "MemberExpr", slot |-> "obj"],
   [kind |-> "BinExpr", slot |-> "left"]}

StatementSites ==
  {[kind |-> "ExprStmt", slot |-> "expr"],
   [kind |-> "VarDeclarator", slot |-> "init"]}

OtherSites ==
  {[kind |-> "ExprOrSpread", slot |-> "expr"],
   [kind |-> "AssignExpr", slot |-> "right"],
   [kind |-> "MemberExpr", slot |-> "prop"],
   [kind |-> "BinExpr", slot |-> "right"],
   [kind |-> "CondExpr", slot |-> "test"],
   [kind |-> "CondExpr", slot |-> "cons"],
   [kind |-> "ArrowExpr", slot |-> "body"],
   [kind |-> "JSXExprContainer", slot |-> "expr"],
   [kind |-> "UpdateExpr", slot |-> "arg"],
   [kind |-> "ComputedPropName", slot |-> "expr"]}

Sites == ContinuingSites \cup StatementSites \cup OtherSites

ParenLevels ==
  UNION {[1..d -> [comments : BOOLEAN, jsdoc : BOOLEAN]] : d \in 1..MaxParenDepth}

\* the innermost expressions; a field no generator reads for the kind keeps
\* one value
ExprChoices ==
  {[expr |-> e, left_kind |-> "Ident", outer_comments |-> FALSE,
    jsx_multi_line_parens |-> "prefer"] :
     e \in ExprKinds \ {"AssignExpr", "JSXElement"}}
  \cup {[expr |-> "AssignExpr", left_kind |-> l, outer_comments |-> FALSE,
         jsx_multi_line_parens |-> "prefer"] : l \in {"Ident", "ObjectPat"}}
  \cup {[expr |-> "JSXElement", left_kind |-> "Ident", outer_comments |-> oc,
         jsx_multi_line_parens |-> j] :
          oc \in BOOLEAN, j \in {"never", "prefer", "always"}}

\* the places of the outermost ParenExpr
SiteChoices ==
  {[site |-> s, spread |-> FALSE, top |-> t] :
     s \in ContinuingSites, t \in {"ExprStmt", "VarDeclarator"}}
  \cup {[site |-> s, spread |-> FALSE, top |-> "none"] : s \in StatementSites}
  \cup {[site |-> s, spread |-> FALSE, top |-> "VarDeclarator"] :
          s \in OtherSites}
  \cup {[site |-> [kind |-> "ExprOrSpread", slot |-> "expr"],
         spread |-> TRUE, top |-> "VarDeclarator"]}

\* the operand of an update expression is a name
ParenInputs ==
  {i \in {[expr |-> e.expr, left_kind |-> e.left_kind, parens |-> ps,
           outer_comments |-> e.outer_comments, site |-> s.site,
           spread |-> s.spread, top |-> s.top,
           jsx_multi_line_parens |-> e.jsx_multi_line_parens] :
            e \in ExprChoices, ps \in ParenLevels, s \in SiteChoices} :
     i.site.kind = "UpdateExpr" => i.expr = "Ident"}

\* kind of the expression inside the ParenExpr of level i
ParenExprKind(in, i) == IF i < Len(in.parens) THEN "ParenExpr" ELSE in.expr

\* kind of the parent of the ParenExpr of level i
ParenParentKind(in, i) == IF i > 1 THEN "ParenExpr" ELSE in.site.kind

\* node_helpers::has_surrounding_comments of the ParenExpr of level i
ParenHasSurroundingComments(in, i) ==
  IF i > 1 THEN in.parens[i - 1].comments ELSE in.outer_comments

RECURSIVE JsxParentLoop(_, _)
JsxParentLoop(in, i) ==
  IF i = 0 THEN TRUE
  ELSE IF ParenHasSurroundingComments(in, i) THEN FALSE
       ELSE JsxParentLoop(in, i - 1)

\* is_jsx_paren_expr_handled_node of the expression inside level i
IsJsxParenExprHandledNode(in, i) ==
  IF in.jsx_multi_line_parens = "never" THEN FALSE
  ELSE IF ParenExprKind(in, i) # "JSXElement" THEN FALSE
  ELSE IF in.parens[i].comments THEN FALSE
  ELSE IF ~JsxParentLoop(in, i) THEN FALSE
  ELSE IF in.jsx_multi_line_parens = "always" THEN TRUE
  ELSE in.site.kind \notin {"ExprStmt", "ExprOrSpread", "JSXExprContainer"}

SkippedParentKindsWithCall ==
  {"ParenExpr", "ExprStmt", "JSXElement", "JSXFragment", "JSXExprContainer",
   "UpdateExpr", "ComputedPropName", "CallExpr"}

SkippedParentKinds ==
  {"ParenExpr", "ExprStmt", "JSXElement", "JSXFragment", "JSXExprContainer",
   "UpdateExpr", "ComputedPropName"}

ShouldSkipParenExpr(in, i) ==
  IF in.parens[i].comments THEN FALSE
  ELSE IF ParenExprKind(in, i) = "AssignExpr" /\ in.left_kind = "ObjectPat"
       THEN FALSE
  ELSE IF ParenExprKind(in, i) = "SeqExpr" THEN FALSE
  ELSE IF in.parens[i].jsdoc THEN FALSE
  ELSE IF ParenExprKind(in, i) = "ArrayLit" THEN TRUE
  ELSE IF ParenParentKind(in, i) \in SkippedParentKinds THEN TRUE
  ELSE IF ParenParentKind(in, i) = "AssignExpr" /\ in.site.slot = "right"
       THEN TRUE
  ELSE IF ParenParentKind(in, i) = "ExprOrSpread" /\ ~in.spread THEN TRUE
  ELSE IF ParenParentKind(in, i) = "MemberExpr" /\ in.site.slot = "prop"
       THEN TRUE
  ELSE IsJsxParenExprHandledNode(in, i)

\* the ancestors above the site
TopWalk(in) == in.top = "ExprStmt"

SiteWalk(in) ==
  CASE in.site.kind \in {"CallExpr", "NewExpr"} ->
         IF in.site.slot # "callee" THEN FALSE ELSE TopWalk(in)
    [] in.site.kind = "ExprStmt" -> TRUE
    [] in.site.kind = "MemberExpr" ->
         IF in.site.slot = "prop" THEN FALSE ELSE TopWalk(in)
    [] in.site.kind = "CondExpr" -> in.site.slot = "test"
    [] in.site.kind = "BinExpr" ->
         IF in.site.slot = "right" THEN FALSE ELSE TopWalk(in)
    [] OTHER -> FALSE

RECURSIVE ParenWalk(_, _)
ParenWalk(in, i) ==
  IF i = 0 THEN SiteWalk(in)
  ELSE IF ~ShouldSkipParenExpr(in, i) THEN FALSE
       ELSE ParenWalk(in, i - 1)

\* called for the innermost expression
ShouldAddParensAroundExpr(in) == ParenWalk(in, Len(in.parens))

\* the parentheses the generators of one input put around the innermost
\* expression: kept[i] for the ParenExpr of level i, added for the pair of
\* gen_arrow_func_expr, gen_fn_expr and gen_object_lit
GenParenExprResult(in) ==
  [kept |-> [i \in 1..Len(in.parens) |-> ~ShouldSkipParenExpr(in, i)],
   added |-> in.expr \in {"ArrowExpr", "FnExpr", "ObjectLit"}
               /\ ShouldAddParensAroundExpr(in)]

(***************************************************************************)
(* Generators that are functions of one node are run on their own: the     *)
(* traversal is idle, an initial state holds the node, one step generates. *)
(***************************************************************************)
Idle ==
  /\ program = "empty"
  /\ comments = <<>>
  /\ config = [debug |-> FALSE, operator_position |-> "nextLine",
               sort_imports |-> "caseInsensitive"]
  /\ current_node = 1
  /\ parent_stack = <<>>
  /\ handled_comments = {}
  /\ token_index = 0
  /\ last_generated_node_pos = 0
  /\ stack = <<>>
  /\ status = "idle"
  /\ rendered = <<>>
  /\ declined = {}
  /\ raw_nodes = {}
  /\ ignored = {}
  /\ dispatched = <<>>
  /\ generated = {}
  /\ trailing_pulled = {}

StrInit ==
  /\ Idle
  /\ str_in \in {i \in StrInputs : ValidStrInput(i)}
  /\ str_out = NoStr
  /\ paren_in = NoParen
  /\ paren_out = NoParen
  /\ unit_in = NoUnit
  /\ unit_out = NoUnit

\* gen_string_literal
GenStringLiteral ==
  /\ str_in # NoStr
  /\ str_out = NoStr
  /\ LET string_value == GetStringValue(str_in.raw)
     IN str_out' = [value |-> string_value,
                    text |-> GetStringLiteralText(string_value, str_in.jsx,
                                                  str_in)]
  /\ UNCHANGED <<genVars, str_in, parenVars, unitVars>>

StrNext == GenStringLiteral

StrSpec == StrInit /\ [][StrNext]_vars

ParenInit ==
  /\ Idle
  /\ paren_in \in ParenInputs
  /\ paren_out = NoParen
  /\ str_in = NoStr
  /\ str_out = NoStr
  /\ unit_in = NoUnit
  /\ unit_out = NoUnit

\* gen_paren_expr down to the innermost expression's generator
GenParenExpr ==
  /\ paren_in # NoParen
  /\ paren_out = NoParen
  /\ paren_out' = GenParenExprResult(paren_in)
  /\ UNCHANGED <<genVars, paren_in, strVars, unitVars>>

ParenNext == GenParenExpr

ParenSpec == ParenInit /\ [][ParenNext]_vars

(***************************************************************************)
(* Properties                                                              *)
(***************************************************************************)
\* the comment lies inside the raw text of a node generated through the
\* ignore-comment path
InsideIgnored(c) ==
  \E n \in ignored : Lo(n) < CommentLo(c) /\ CommentLo(c) < Hi(n)

\* C1: when generation has finished, every comment of the file has been
\* rendered, except the comments that lie inside the raw text of a node
\* generated through the ignore-comment path.
C1_EveryCommentEmitted ==
  status = "done" =>
    \A c \in CommentIds : c \in Range(rendered) \/ InsideIgnored(c)

NoDuplicates(seq) ==
  \A i, j \in 1..Len(seq) : i # j => seq[i] # seq[j]

\* C2: each comment is rendered at most once: a comment is in the handled
\* set from the moment it is rendered, and gen_comment on a comment of the
\* handled set renders nothing (the comment stays rendered once).
C2_RenderedAtMostOnce ==
  /\ NoDuplicates(rendered)
  /\ Range(rendered) \subseteq handled_comments
  /\ declined \subseteq handled_comments

\* gen_comment has been called on a comment that it had rendered before
C2_Witness ==
  /\ status = "done"
  /\ \E c \in declined : c \in Range(rendered)

\* a comment of n's leading comments carries the ignore marker
HasLeadingIgnore(n) ==
  \E c \in CommentIds :
    comments[c].ignore /\ comments[c].gap = Nodes[program][n].first - 1

InsideNode(c, n) == Lo(n) < CommentLo(c) /\ CommentLo(c) < Hi(n)

C5_GenerationNeverAborts == status # "unexpected_kind"

NonDecreasing(seq) ==
  \A i, j \in 1..Len(seq) : i < j => Lo(seq[i]) <= Lo(seq[j])

C7_ContextRestored ==
  [][(Len(stack') < Len(stack) /\ stack' # <<>>) =>
       /\ current_node' = Head(stack).past_current_node
       /\ parent_stack' = Head(stack).entry_stack]_vars

\* the visit of an ignored node and the visit of a generated node have
\* returned
C7_Witness ==
  /\ status = "done"
  /\ ignored # {}
  /\ generated # {}
  /\ current_node = 1
  /\ parent_stack = <<>>

Delimiter(text) == Head(text)

\* C9: for a string value with n double quotes and m single quotes, prefer
\* double chooses the single quote iff m < n, and prefer single chooses the
\* double quote iff n < m.
C9_QuoteChoice ==
  str_out # NoStr =>
    LET n == CountChar(str_out.value, DQ)
        m == CountChar(str_out.value, SQ)
        style == IF str_in.jsx THEN str_in.jsx_quote_style
                 ELSE str_in.quote_style
    IN /\ style = "preferDouble" => (Delimiter(str_out.text) = SQ <=> m < n)
       /\ style = "preferSingle" => (Delimiter(str_out.text) = DQ <=> n < m)

\* a literal with as many double as single quotes under prefer double, and
\* one with more double quotes
C9_Witness ==
  /\ str_out # NoStr
  /\ str_in.quote_style = "preferDouble"
  /\ ~str_in.jsx
  /\ CountChar(str_out.value, DQ) = 1
  /\ CountChar(str_out.value, SQ) = 1

\* C10: an arrow function written in parentheses as the callee of a call
\* is generated with parentheses around it.
C10_ArrowCalleeKeepsParens ==
  (paren_out # NoParen /\ paren_in.expr = "ArrowExpr"
     /\ paren_in.site = [kind |-> "CallExpr", slot |-> "callee"]) =>
    \/ paren_out.added
    \/ \E i \in 1..Len(paren_out.kept) : paren_out.kept[i]

\* ((x => x))() in an initializer: the inner parentheses go, the outer stay
C10_Witness ==
  /\ paren_out # NoParen
  /\ paren_in.expr = "ArrowExpr"
  /\ paren_in.site = [kind |-> "CallExpr", slot |-> "callee"]
  /\ paren_in.top = "VarDeclarator"
  /\ Len(paren_in.parens) = 2
  /\ paren_out.kept = <<TRUE, FALSE>>
  /\ ~paren_out.added

(***************************************************************************)
(* Separated values: array-like nodes, object patterns, parameters and     *)
(* arguments.  An element is [kind, pat]; pat is the kind of the pattern   *)
(* of a Param and "none" otherwise.  A hole of an array is a Separator.    *)
(***************************************************************************)
MaxElems == 3

El(kind, pat) == [kind |-> kind, pat |-> pat]

TrailingCommasValues == {"never", "always", "onlyMultiLine"}

\* allow_trailing_commas of gen_array_like_nodes
AllowTrailingCommas(nodes) ==
  IF nodes # <<>> /\ nodes[Len(nodes)].kind # "Separator"
     /\ nodes[Len(nodes)].kind = "RestPat"
  THEN FALSE
  ELSE TRUE

\* is_param_rest_pat looking at the kind of the node only
IsParamRestPatKindOnly(param) == param.kind = "RestPat"

IsParamRestPat(param) ==
  IF param.kind = "Param" THEN param.pat = "RestPat"
  ELSE param.kind = "RestPat"

\* get_trailing_commas of gen_object_pat
ObjectPatTrailingCommas(in) ==
  IF in.nodes # <<>> /\ in.nodes[Len(in.nodes)].kind = "RestPat" THEN "never"
  ELSE in.option

\* get_trailing_commas of gen_parameters_or_arguments; in.option is the
\* configured policy of the list (parameters or arguments)
ParametersTrailingCommas(in) ==
  IF in.nodes # <<>> /\ IsParamRestPat(in.nodes[Len(in.nodes)]) THEN "never"
  ELSE IF in.dynamic_import THEN "never"
  ELSE in.option

\* the policy each generator hands to gen_separated_values
SeparatorOf(in) ==
  CASE in.node \in {"ArrayPat", "ArrayLit", "TsTupleType"} ->
         IF AllowTrailingCommas(in.nodes) THEN in.option ELSE "never"
    [] in.node = "ObjectPat" -> ObjectPatTrailingCommas(in)
    [] OTHER -> ParametersTrailingCommas(in)

\* get_generated_trailing_comma, its condition resolved by the layout
GetGeneratedTrailingComma(option, is_trailing, is_multi_line) ==
  IF ~is_trailing THEN ","
  ELSE CASE option = "always" -> ","
         [] option = "onlyMultiLine" -> IF is_multi_line THEN "," ELSE ""
         [] OTHER -> ""

\* gen_separated_values_with_result without a sorter: the separator
\* generated after each value
GenSeparatedValues(in) ==
  [i \in 1..Len(in.nodes) |->
     GetGeneratedTrailingComma(SeparatorOf(in), i = Len(in.nodes),
                               in.multi_line)]

\* the lists of at most MaxElems elements that end with one of lasts
ElemLists(inner, lasts) ==
  UNION {{Append(pre, l) : pre \in [1..n -> inner], l \in lasts} :
           n \in 0..(MaxElems - 1)}

\* the element lists the parser can produce for each kind of list
SepNodes(node) ==
  CASE node = "ArrayPat" ->
         ElemLists({El("Ident", "none"), El("Separator", "none")},
                   {El("Ident", "none"), El("RestPat", "none")})
    [] node = "ArrayLit" ->
         ElemLists({El("ExprOrSpread", "none"), El("Separator", "none")},
                   {El("ExprOrSpread", "none")})
    [] node = "TsTupleType" ->
         ElemLists({El("TsTupleElement", "none")},
                   {El("TsTupleElement", "none")})
    [] node = "ObjectPat" ->
         ElemLists({El("KeyValuePatProp", "none"), El("AssignPatProp", "none")},
                   {El("AssignPatProp", "none"), El("RestPat", "none")})
    [] node = "Function" ->
         ElemLists({El("Param", "Ident"), El("Param", "AssignPat")},
                   {El("Param", "Ident"), El("Param", "RestPat")})
    [] node \in {"ArrowExpr", "TsFnType"} ->
         ElemLists({El("Ident", "none")},
                   {El("Ident", "none"), El("RestPat", "none")})
    [] OTHER ->
         ElemLists({El("ExprOrSpread", "none")}, {El("ExprOrSpread", "none")})

SepNodeKinds ==
  {"ArrayPat", "ArrayLit", "TsTupleType", "ObjectPat", "Function",
   "ArrowExpr", "TsFnType", "CallExpr"}

SepInputs(nd) ==
  {[fn |-> "gen_separated_values", node |-> nd, nodes |-> ns,
    option |-> o, multi_line |-> ml,
    dynamic_import |-> (nd = "CallExpr" /\ di)] :
     ns \in SepNodes(nd), o \in TrailingCommasValues,
     ml \in BOOLEAN, di \in BOOLEAN}

SepInit ==
  /\ Idle
  /\ \E nd \in SepNodeKinds : unit_in \in SepInputs(nd)
  /\ unit_out = NoUnit
  /\ str_in = NoStr
  /\ str_out = NoStr
  /\ paren_in = NoParen
  /\ paren_out = NoParen

GenSeparatedValuesStep ==
  /\ unit_in.fn = "gen_separated_values"
  /\ unit_out = NoUnit
  /\ unit_out' = [fn |-> unit_in.fn, seps |-> GenSeparatedValues(unit_in)]
  /\ UNCHANGED <<genVars, unit_in, strVars, parenVars>>

SepNext == GenSeparatedValuesStep

SepSpec == SepInit /\ [][SepNext]_vars

\* the last element of the list is a rest element of a pattern or parameter
LastIsRest(in) ==
  /\ in.node \in {"ArrayPat", "ObjectPat", "Function", "ArrowExpr", "TsFnType"}
  /\ LET last == in.nodes[Len(in.nodes)]
     IN last.kind = "RestPat" \/ (last.kind = "Param" /\ last.pat = "RestPat")

\* C11: when the last element of an array pattern, object pattern or
\* parameter list is a rest element, nothing is emitted as its separator,
\* whatever the configured trailing-comma policy and the layout are.
C11_NoTrailingCommaAfterRest ==
  (unit_out # NoUnit /\ unit_in.fn = "gen_separated_values"
   /\ LastIsRest(unit_in))
    => unit_out.seps[Len(unit_in.nodes)] = ""

\* a function's parameter list ending in a rest parameter was generated
\* under the policy always, on several lines
C11_Witness ==
  /\ unit_out # NoUnit
  /\ unit_in.fn = "gen_separated_values"
  /\ unit_in.node = "Function"
  /\ LastIsRest(unit_in)
  /\ Len(unit_in.nodes) = 2
  /\ unit_in.option = "always"
  /\ unit_in.multi_line
  /\ unit_out.seps = <<",", "">>

(***************************************************************************)
(* Control-flow statements and the conditional brace body.  A body is      *)
(* [kind, stmts, own_line, comment, block_lines, multi]: stmts counts the  *)
(* statements of a block, own_line says that the first statement of the    *)
(* body starts below the header in the source, comment that it has a       *)
(* leading comment on another line, block_lines that an empty block spans  *)
(* lines in the source, multi that its statements print on several lines.  *)
(***************************************************************************)
MaxStmts == 2

Bool == {FALSE, TRUE}

Body(kind, stmts, own_line, comment, block_lines, multi) ==
  [kind |-> kind, stmts |-> stmts, own_line |-> own_line,
   comment |-> comment, block_lines |-> block_lines, multi |-> multi]

UseBracesValues == {"whenNotSingleLine", "maintain", "always", "preferNone"}

SingleBodyPositions == {"maintain", "nextLine", "sameLine"}

\* UseBraces of the bodies of gen_try_stmt and gen_catch_clause, read from
\* a configuration
TryStmtUseBracesConfigured == "preferNone"

\* UseBraces of the bodies of gen_try_stmt and gen_catch_clause
TryStmtUseBraces == "always"

\* get_force_braces that never forces
GetForceBracesNever(body_node) == FALSE

GetForceBraces(body_node) ==
  IF body_node.kind = "BlockStmt" THEN body_node.stmts = 0 ELSE FALSE

GetBodyShouldBeMultiLine(body_node) ==
  IF body_node.kind = "BlockStmt"
  THEN IF body_node.stmts = 1 /\ ~body_node.comment THEN FALSE
       ELSE IF body_node.stmts = 0 /\ ~body_node.block_lines THEN FALSE
       ELSE TRUE
  ELSE body_node.comment

GetShouldUseNewLine(body_node, body_should_be_multi_line, single_body_position) ==
  IF body_should_be_multi_line THEN TRUE
  ELSE IF single_body_position # "none"
  THEN CASE single_body_position = "maintain" -> body_node.own_line
         [] single_body_position = "nextLine" -> TRUE
         [] OTHER ->
              IF body_node.kind = "BlockStmt"
              THEN IF body_node.stmts # 1 THEN TRUE ELSE body_node.own_line
              ELSE FALSE
  ELSE IF body_node.kind = "BlockStmt" /\ body_node.stmts = 0
       THEN body_node.block_lines
       ELSE TRUE

\* the resolver of newLineCondition; the header and the statements are on
\* the lines the layout gave them
NewLineCondition(opts, should_use_new_line) ==
  IF opts.body_node.kind = "EmptyStmt" THEN FALSE
  ELSE IF should_use_new_line THEN TRUE
  ELSE IF ~opts.start_header_info THEN FALSE
  ELSE IF opts.header_multi THEN TRUE
  ELSE opts.body_node.multi

\* condition_resolvers::is_multiple_lines from the start of the header (or
\* of the body) to the end of the body
IsMultipleLines(opts, newline) ==
  (opts.start_header_info /\ opts.header_multi) \/ newline
    \/ opts.body_node.multi

\* the resolver of the closeBrace condition that looks at the source
CloseBraceFromSource(opts, open) == opts.body_node.kind = "BlockStmt"

\* the resolver of the closeBrace condition: the resolved openBrace
CloseBraceCondition(opts, open) == open

\* the resolver of the openBrace condition without the condition of the
\* previous arm
OpenBraceConditionAlone(opts, newline) ==
  LET body_node == opts.body_node
      force_braces == GetForceBraces(body_node)
  IN IF body_node.kind = "EmptyStmt" THEN FALSE
     ELSE CASE opts.use_braces = "whenNotSingleLine" ->
                 force_braces \/ IsMultipleLines(opts, newline)
            [] opts.use_braces = "maintain" ->
                 force_braces \/ body_node.kind = "BlockStmt"
            [] opts.use_braces = "always" -> TRUE
            [] OTHER ->
                 \/ force_braces
                 \/ GetBodyShouldBeMultiLine(body_node)
                 \/ (opts.start_header_info /\ opts.end_header_info
                     /\ opts.header_multi)
                 \/ body_node.multi

\* the resolver of the openBrace condition
OpenBraceCondition(opts, newline) ==
  LET body_node == opts.body_node
      force_braces == GetForceBraces(body_node)
      has_open_brace_token == body_node.kind = "BlockStmt"
  IN IF body_node.kind = "EmptyStmt" THEN FALSE
     ELSE CASE opts.use_braces = "whenNotSingleLine" ->
                 IF force_braces THEN TRUE
                 ELSE IsMultipleLines(opts, newline)
            [] opts.use_braces = "maintain" ->
                 force_braces \/ has_open_brace_token
            [] opts.use_braces = "always" -> TRUE
            [] OTHER ->
                 IF force_braces \/ GetBodyShouldBeMultiLine(body_node)
                 THEN TRUE
                 ELSE IF opts.start_header_info /\ opts.end_header_info
                         /\ opts.header_multi
                 THEN TRUE
                 ELSE IF body_node.multi THEN TRUE
                 ELSE IF opts.requires_braces # "none"
                         /\ opts.requires_braces = "true"
                 THEN TRUE
                 ELSE FALSE

\* gen_conditional_brace_body: whether the body starts on a new line and
\* whether its braces are printed
GenConditionalBraceBody(opts) ==
  LET newline ==
        NewLineCondition(opts,
          GetShouldUseNewLine(opts.body_node,
                              GetBodyShouldBeMultiLine(opts.body_node),
                              opts.single_body_position))
      open == OpenBraceCondition(opts, newline)
  IN [open |-> open, close |-> CloseBraceCondition(opts, open),
      newline |-> newline, multi |-> IsMultipleLines(opts, newline)]

BraceBodyOptions(body_node, use_braces, single_body_position, requires_braces, start_header_info, end_header_info, header_multi) ==
  [body_node |-> body_node, use_braces |-> use_braces,
   single_body_position |-> single_body_position,
   requires_braces |-> requires_braces,
   start_header_info |-> start_header_info,
   end_header_info |-> end_header_info, header_multi |-> header_multi]

\* gen_header_with_conditional_brace_body
GenHeaderWithConditionalBraceBody(body_node, use_braces, single_body_position, requires_braces, header_multi) ==
  GenConditionalBraceBody(
    BraceBodyOptions(body_node, use_braces, single_body_position,
                     requires_braces, TRUE, TRUE, header_multi))

\* a reference to a resolved condition, as the resolvers read it
Resolved(b) == IF b THEN "true" ELSE "false"

\* gen_control_flow_separator that never looks at what came before
GenControlFlowSeparatorPlain(next_control_flow_position, previous_multi, previous_close_brace, first_on_line) ==
  IF next_control_flow_position = "nextLine" THEN "newline" ELSE "space"

\* gen_control_flow_separator; first_on_line says that the keyword starts
\* its line in the source
GenControlFlowSeparator(next_control_flow_position, previous_multi, previous_close_brace, first_on_line) ==
  CASE next_control_flow_position = "sameLine" ->
         IF ~previous_multi THEN "newline"
         ELSE IF previous_close_brace # "none"
                 /\ previous_close_brace = "false"
         THEN "newline"
         ELSE "space"
    [] next_control_flow_position = "nextLine" -> "newline"
    [] OTHER -> IF first_on_line THEN "newline" ELSE "space"

\* gen_expr_stmt of the call `name()` when semicolons are not inserted as
\* prefixes, and as many of them as a body has
ExprStmtText(name, semi_colons) ==
  IF semi_colons = "always" THEN <<name, ";">> ELSE <<name>>

RECURSIVE StmtsText(_, _, _)
StmtsText(n, name, semi_colons) ==
  IF n = 0 THEN <<>>
  ELSE IF n = 1 THEN ExprStmtText(name, semi_colons)
  ELSE ExprStmtText(name, semi_colons) \o <<"\n">>
         \o StmtsText(n - 1, name, semi_colons)

\* the items of gen_conditional_brace_body as printed, indentation left
\* out: the brace after its separator, the new line or the space before
\* the statements, the statements, the closing brace
BodyText(body_node, res, name, semi_colons) ==
  LET stmts == CASE body_node.kind = "EmptyStmt" -> <<";">>
                 [] body_node.kind = "ExprStmt" ->
                      ExprStmtText(name, semi_colons)
                 [] OTHER -> StmtsText(body_node.stmts, name, semi_colons)
      has_text == body_node.kind # "EmptyStmt" /\ stmts # <<>>
      gap == IF res.newline THEN <<"\n">>
             ELSE IF has_text THEN <<" ">> ELSE <<>>
  IN (IF res.open THEN <<" ", "{">> ELSE <<>>)
       \o (IF body_node.kind = "EmptyStmt" THEN <<>> ELSE gap)
       \o stmts
       \o (IF res.close
           THEN (IF res.newline /\ ~has_text THEN <<>> ELSE gap) \o <<"}">>
           ELSE <<>>)

\* gen_if_stmt of `if (a) b(); else c();`, its alternate, if any, not an
\* if statement
GenIfStmt(in) ==
  LET result == GenHeaderWithConditionalBraceBody(
                  in.bodies[1], in.use_braces, in.single_body_position,
                  "none", in.header_multi)
      header == <<"if">> \o (IF in.space_after_if_keyword THEN <<" ">>
                             ELSE <<>>) \o <<"(a)">>
      cons == BodyText(in.bodies[1], result, "b()", in.semi_colons)
  IN IF Len(in.bodies) = 1
     THEN [bodies |-> <<result>>, seps |-> <<>>, text |-> header \o cons]
     ELSE LET alt == GenConditionalBraceBody(
                       BraceBodyOptions(in.bodies[2], in.use_braces,
                                        in.single_body_position,
                                        Resolved(result.open), TRUE, FALSE,
                                        FALSE))
              sep == GenControlFlowSeparator(in.next_control_flow_position,
                                             result.multi,
                                             Resolved(result.close),
                                             in.first_on_line)
          IN [bodies |-> <<result, alt>>, seps |-> <<sep>>,
              text |-> header \o cons
                         \o <<IF sep = "newline" THEN "\n" ELSE " ", "else">>
                         \o BodyText(in.bodies[2], alt, "c()",
                                     in.semi_colons)]

\* gen_for_stmt, gen_for_in_stmt, gen_for_of_stmt, gen_while_stmt
GenForLikeStmt(in) ==
  [bodies |->
     <<GenHeaderWithConditionalBraceBody(
         in.bodies[1], in.use_braces, in.single_body_position, "none",
         in.header_multi)>>,
   seps |-> <<>>]

\* gen_block: the braces of a block statement generated as a node
GenBlock(body_node) ==
  [open |-> TRUE, close |-> TRUE, newline |-> body_node.stmts > 0,
   multi |-> body_node.stmts > 0 \/ body_node.block_lines]

\* gen_do_while_stmt: the body is generated as a node
GenDoWhileStmt(in) ==
  [bodies |->
     <<IF in.bodies[1].kind = "BlockStmt" THEN GenBlock(in.bodies[1])
       ELSE [open |-> FALSE, close |-> FALSE, newline |-> FALSE,
             multi |-> in.bodies[1].multi]>>,
   seps |-> <<>>]

\* gen_try_stmt with gen_catch_clause; in.roles names the blocks present
GenTryStmt(in) ==
  LET block(i) ==
        GenConditionalBraceBody(
          BraceBodyOptions(
            in.bodies[i], TryStmtUseBraces,
            IF in.roles[i] = "catch"
            THEN (IF in.roles[Len(in.roles)] = "finally" THEN "nextLine"
                  ELSE "none")
            ELSE "nextLine",
            "none", in.roles[i] = "catch", in.roles[i] = "catch", FALSE))
  IN [bodies |-> [i \in 1..Len(in.bodies) |-> block(i)],
      seps |-> [i \in 1..(Len(in.bodies) - 1) |->
                  GenControlFlowSeparator(in.next_control_flow_position,
                                          block(i).multi, "none",
                                          in.first_on_line)]]

\* the bodies the parser can produce
BlockBodies ==
  {Body("BlockStmt", 0, FALSE, FALSE, bl, FALSE) : bl \in Bool}
    \cup {Body("BlockStmt", 1, ol, c /\ ol, TRUE, m) : ol \in Bool, c \in Bool,
                                                     m \in Bool}
    \cup {Body("BlockStmt", n, TRUE, FALSE, TRUE, TRUE) : n \in 2..MaxStmts}

Bodies1 ==
  {Body("EmptyStmt", 0, FALSE, FALSE, FALSE, FALSE)}
    \cup {Body("ExprStmt", 0, ol, c /\ ol, FALSE, m) : ol \in Bool,
                                                      c \in Bool, m \in Bool}
    \cup BlockBodies

CtlInput(fn, bodies, roles, ub, ncp, sbp, hm, fol) ==
  [fn |-> fn, bodies |-> bodies, roles |-> roles, use_braces |-> ub,
   next_control_flow_position |-> ncp, single_body_position |-> sbp,
   header_multi |-> hm, first_on_line |-> fol,
   space_after_if_keyword |-> TRUE, semi_colons |-> "always"]

\* the same statement under every ifStatement.spaceAfterIfKeyword and
\* every semiColons that does not insert prefixes
WithTextOptions(in) ==
  {[in EXCEPT !.space_after_if_keyword = sp, !.semi_colons = sc] :
     sp \in Bool, sc \in {"always", "asi"}}

ForLikeFns ==
  {"gen_for_stmt", "gen_for_in_stmt", "gen_for_of_stmt", "gen_while_stmt"}

TryRoles ==
  {<<"try", "catch">>, <<"try", "finally">>, <<"try", "catch", "finally">>}

\* the position of the next keyword and whether it starts its line in the
\* source, which only the position maintain reads
ControlFlowChoices ==
  {<<"sameLine", FALSE>>, <<"nextLine", FALSE>>, <<"maintain", FALSE>>,
   <<"maintain", TRUE>>}

\* the if statements with n bodies
IfStmtInputs(n) ==
  IF n = 1
  THEN UNION {WithTextOptions(
                CtlInput("gen_if_stmt", <<c>>, <<"cons">>, ub, "sameLine", sbp,
                         hm, FALSE)) :
                c \in Bodies1, ub \in UseBracesValues,
                sbp \in SingleBodyPositions, hm \in Bool}
  ELSE {CtlInput("gen_if_stmt", <<c, a>>, <<"cons", "alt">>, ub, cf[1], sbp,
                 hm, cf[2]) :
          c \in Bodies1, a \in Bodies1, ub \in UseBracesValues,
          cf \in ControlFlowChoices, sbp \in SingleBodyPositions, hm \in Bool}

\* the loops of one generator
LoopInputs(fn) ==
  {CtlInput(fn, <<b>>, <<"body">>, ub, "sameLine", sbp, hm, FALSE) :
     b \in Bodies1, ub \in UseBracesValues, sbp \in SingleBodyPositions,
     hm \in Bool}

\* the try statements with the blocks r
TryStmtInputs(r) ==
  {CtlInput("gen_try_stmt", bs, r, "always", cf[1], "nextLine", FALSE, cf[2]) :
     bs \in [1..Len(r) -> BlockBodies], cf \in ControlFlowChoices}

CtlInputs(fn) ==
  CASE fn = "gen_if_stmt" -> IfStmtInputs(1) \cup IfStmtInputs(2)
    [] fn = "gen_try_stmt" -> UNION {TryStmtInputs(r) : r \in TryRoles}
    [] OTHER -> LoopInputs(fn)

CtlFns == ForLikeFns \cup {"gen_if_stmt", "gen_do_while_stmt", "gen_try_stmt"}

CtlInit ==
  /\ Idle
  /\ \E fn \in CtlFns : unit_in \in CtlInputs(fn)
  /\ unit_out = NoUnit
  /\ str_in = NoStr
  /\ str_out = NoStr
  /\ paren_in = NoParen
  /\ paren_out = NoParen

CtlStep(fns, result) ==
  /\ unit_in.fn \in fns
  /\ unit_out = NoUnit
  /\ unit_out' = [fn |-> unit_in.fn] @@ result
  /\ UNCHANGED <<genVars, unit_in, strVars, parenVars>>

GenIfStmtStep == CtlStep({"gen_if_stmt"}, GenIfStmt(unit_in))

GenForLikeStmtStep == CtlStep(ForLikeFns, GenForLikeStmt(unit_in))

GenDoWhileStmtStep == CtlStep({"gen_do_while_stmt"}, GenDoWhileStmt(unit_in))

GenTryStmtStep == CtlStep({"gen_try_stmt"}, GenTryStmt(unit_in))

CtlNext ==
  \/ GenIfStmtStep
  \/ GenForLikeStmtStep
  \/ GenDoWhileStmtStep
  \/ GenTryStmtStep

CtlSpec == CtlInit /\ [][CtlNext]_vars

CtlDone == unit_out # NoUnit /\ unit_in.fn \in CtlFns

\* C12: a control-flow statement whose body is an empty block is generated
\* with both braces of that body under every brace policy.
C12_EmptyBlockKeepsBraces ==
  CtlDone =>
    \A i \in 1..Len(unit_in.bodies) :
      (unit_in.bodies[i].kind = "BlockStmt" /\ unit_in.bodies[i].stmts = 0)
        => (unit_out.bodies[i].open /\ unit_out.bodies[i].close)

\* `for (;;) {}` on one line under the policy preferNone keeps its braces
C12_Witness ==
  /\ CtlDone
  /\ unit_in.fn = "gen_for_stmt"
  /\ unit_in.use_braces = "preferNone"
  /\ ~unit_in.header_multi
  /\ unit_in.bodies[1] = Body("BlockStmt", 0, FALSE, FALSE, FALSE, FALSE)
  /\ unit_out.bodies[1].open
  /\ unit_out.bodies[1].close
  /\ ~unit_out.bodies[1].newline

\* C13: the blocks of try, catch and finally are generated with braces,
\* whatever the configuration and the number of statements of the block.
C13_TryBlocksBraced ==
  (CtlDone /\ unit_in.fn = "gen_try_stmt") =>
    \A i \in 1..Len(unit_in.bodies) :
      unit_out.bodies[i].open /\ unit_out.bodies[i].close

\* try, catch and finally with one, two and no statement
C13_Witness ==
  /\ CtlDone
  /\ unit_in.fn = "gen_try_stmt"
  /\ unit_in.roles = <<"try", "catch", "finally">>
  /\ unit_in.bodies[1].stmts = 1
  /\ ~unit_in.bodies[1].multi
  /\ unit_in.bodies[2].stmts = 2
  /\ unit_in.bodies[3].stmts = 0
  /\ \A i \in 1..3 : unit_out.bodies[i].open

ElseAfterBracedArm ==
  /\ CtlDone
  /\ unit_in.fn = "gen_if_stmt"
  /\ Len(unit_in.bodies) = 2
  /\ unit_in.use_braces = "preferNone"
  /\ unit_out.bodies[1].open

\* C18 as stated: under preferNone the body of a final else is generated
\* with braces whenever the preceding arm was generated with braces.
C18_ElseFollowsArm == ElseAfterBracedArm => unit_out.bodies[2].open

\* C18, amended: under preferNone the body of a final else that is not an
\* empty statement is generated with braces whenever the preceding arm was
\* generated with braces.
C18_ElseFollowsArmUnlessEmpty ==
  (ElseAfterBracedArm /\ unit_in.bodies[2].kind # "EmptyStmt")
    => unit_out.bodies[2].open

\* a one-line expression statement after else gets braces only because
\* the arm before it had them
C18_Witness ==
  /\ ElseAfterBracedArm
  /\ unit_in.bodies[1].stmts = 2
  /\ unit_in.bodies[2] = Body("ExprStmt", 0, FALSE, FALSE, FALSE, FALSE)
  /\ unit_out.bodies[2].open

\* `if(a)b();else c();`: both bodies are expression statements on the
\* line of their header
IsIfElseExample(in) ==
  /\ in.fn = "gen_if_stmt"
  /\ in.bodies = <<Body("ExprStmt", 0, FALSE, FALSE, FALSE, FALSE),
                   Body("ExprStmt", 0, FALSE, FALSE, FALSE, FALSE)>>
  /\ ~in.header_multi
  /\ ~in.first_on_line

\* C14: `if(a)b();else c();` under the policy whenNotSingleLine, semicolons
\* always, a space after `if` and the next control flow on the same line is
\* generated as `if (a) b();`, a new line, and `else c();`, without braces.
C14_IfElseExample ==
  (unit_out # NoUnit /\ IsIfElseExample(unit_in)
   /\ unit_in.use_braces = "whenNotSingleLine"
   /\ unit_in.next_control_flow_position = "sameLine"
   /\ unit_in.single_body_position = "maintain"
   /\ unit_in.space_after_if_keyword /\ unit_in.semi_colons = "always")
    => unit_out.text
         = <<"if", " ", "(a)", " ", "b()", ";", "\n", "else", " ", "c()", ";">>

C14_Witness ==
  /\ unit_out # NoUnit
  /\ IsIfElseExample(unit_in)
  /\ unit_in.use_braces = "whenNotSingleLine"
  /\ unit_in.next_control_flow_position = "sameLine"
  /\ unit_in.single_body_position = "maintain"
  /\ unit_in.space_after_if_keyword
  /\ unit_in.semi_colons = "always"
  /\ unit_out.seps = <<"newline">>
  /\ ~unit_out.bodies[1].open
  /\ ~unit_out.bodies[2].open

(***************************************************************************)
(* The end of generate: the items of the program are followed by the       *)
(* condition endOfFileNewLine, which the printer resolves after it wrote   *)
(* the items before it.  What was written is a sequence of characters and  *)
(* new lines.                                                              *)
(***************************************************************************)
MaxWritten == 5

WrittenChars == {"a", "\n"}

RECURSIVE WriterInfo(_)
\* the writer's line and column after it wrote the sequence w
WriterInfo(w) ==
  IF w = <<>> THEN [line_number |-> 0, column_number |-> 0]
  ELSE LET before == WriterInfo(SubSeq(w, 1, Len(w) - 1))
       IN IF w[Len(w)] = "\n"
          THEN [line_number |-> before.line_number + 1, column_number |-> 0]
          ELSE [before EXCEPT !.column_number = @ + 1]

\* the resolver of endOfFileNewLine reading the column only
EndOfFileNewLineByColumn(writer_info) == writer_info.column_number > 0

\* the resolver of endOfFileNewLine
EndOfFileNewLine(writer_info) ==
  writer_info.column_number > 0 \/ writer_info.line_number > 0

EofInputs ==
  UNION {{[fn |-> "generate", written |-> w] : w \in [1..n -> WrittenChars]} :
           n \in 0..MaxWritten}

EofInit ==
  /\ Idle
  /\ unit_in \in EofInputs
  /\ unit_out = NoUnit
  /\ str_in = NoStr
  /\ str_out = NoStr
  /\ paren_in = NoParen
  /\ paren_out = NoParen

\* the printer reaches the condition that generate pushed last
PrintEndOfFile ==
  /\ unit_in.fn = "generate"
  /\ unit_out = NoUnit
  /\ unit_out' =
       [fn |-> "generate",
        written |-> IF EndOfFileNewLine(WriterInfo(unit_in.written))
                    THEN Append(unit_in.written, "\n")
                    ELSE unit_in.written]
  /\ UNCHANGED <<genVars, unit_in, strVars, parenVars>>

EofNext == PrintEndOfFile

EofSpec == EofInit /\ [][EofNext]_vars

\* C15: the condition that ends the items of a file prints a new line
\* exactly when something was written before it; after nothing, nothing.
C15_FinalNewLineIffNonEmpty ==
  (unit_out # NoUnit /\ unit_in.fn = "generate") =>
    /\ unit_in.written # <<>>
         => unit_out.written = Append(unit_in.written, "\n")
    /\ unit_in.written = <<>> => unit_out.written = <<>>

\* a file whose output ended with a new line got one more; the empty file
\* is the other case of the claim
C15_Witness ==
  /\ unit_out # NoUnit
  /\ unit_in.fn = "generate"
  /\ unit_in.written = <<"a", "\n">>
  /\ unit_out.written = <<"a", "\n", "\n">>

C15_WitnessEmpty ==
  /\ unit_out # NoUnit
  /\ unit_in.fn = "generate"
  /\ unit_in.written = <<>>
  /\ unit_out.written = <<>>

(***************************************************************************)
(* The two condition references the Context hands from one generator to    *)
(* another: the brace condition an if statement leaves for its `else if`,  *)
(* and the brace condition a conditional brace body leaves for the         *)
(* expression statement that is its body.  A statement is a record; inner  *)
(* holds the statements inside function bodies of an expression (of the    *)
(* test, for an if statement), starts says that the text of an expression  *)
(* statement starts with a character that needs a semicolon before it.     *)
(* A node is named by its path: the index of a statement among its         *)
(* siblings, ChildAt.cons for a consequent or a loop body and ChildAt.alt  *)
(* for an alternate.                                                       *)
(***************************************************************************)
ChildAt == [cons |-> 8, alt |-> 9]

ExprS(starts, inner) ==
  [kind |-> "ExprStmt", starts |-> starts, inner |-> inner, cons |-> <<>>,
   alt |-> <<>>]

IfS(inner, cons, alt) ==
  [kind |-> "IfStmt", starts |-> FALSE, inner |-> inner, cons |-> <<cons>>,
   alt |-> alt]

WhileS(body) ==
  [kind |-> "WhileStmt", starts |-> FALSE, inner |-> <<>>, cons |-> <<body>>,
   alt |-> <<>>]

BlockS(stmts) ==
  [kind |-> "BlockStmt", starts |-> FALSE, inner |-> stmts, cons |-> <<>>,
   alt |-> <<>>]

Call == ExprS(FALSE, <<>>)

Bracket == ExprS(TRUE, <<>>)

\* the modules generated: statements of a file, by name
SlotPrograms ==
  [call_then_bracket |-> <<IfS(<<>>, Call, <<>>), Bracket>>,
   bracket_body |-> <<IfS(<<>>, Bracket, <<>>), Bracket>>,
   block_body |-> <<WhileS(BlockS(<<Bracket>>)), Call>>,
   nested_in_body |-> <<IfS(<<>>, ExprS(TRUE, <<Bracket>>), <<>>)>>,
   else_if |-> <<IfS(<<>>, Call, <<IfS(<<>>, Call, <<>>)>>), IfS(<<>>, Call, <<>>)>>,
   else_if_else |-> <<IfS(<<>>, Call, <<IfS(<<>>, Call, <<Bracket>>)>>)>>,
   if_in_test |->
     <<IfS(<<>>, BlockS(<<Call, Call>>),
           <<IfS(<<IfS(<<>>, Call, <<>>)>>, Call, <<>>)>>)>>,
   if_in_body |->
     <<IfS(<<>>, BlockS(<<IfS(<<>>, Call, <<>>)>>),
           <<IfS(<<>>, BlockS(<<IfS(<<>>, Bracket, <<>>)>>), <<>>)>>)>>]

NoRef == [ref |-> <<>>, for |-> <<>>]

SlotOp(op, node, value) == [op |-> op, node |-> node, value |-> value]

\* node_helpers::is_expr_stmt_or_body_with_single_expr_stmt
IsExprStmtOrBodyWithSingleExprStmt(body_node) ==
  \/ body_node.kind = "ExprStmt"
  \/ body_node.kind = "BlockStmt" /\ Len(body_node.inner) = 1
       /\ body_node.inner[1].kind = "ExprStmt"

RECURSIVE StmtOps(_, _), StmtsOps(_, _, _), BodyOps(_, _)
\* the calls on the Context that generating a statement makes, in order
StmtOps(stmt, path) ==
  CASE stmt.kind = "ExprStmt" ->
         <<SlotOp("gen_expr_stmt", path, NoRef)>>
           \o StmtsOps(stmt.inner, path, 1)
           \o <<SlotOp("gen_for_prefix_semi_colon_insertion", path,
                       [NoRef EXCEPT !.ref = IF stmt.starts THEN path
                                             ELSE <<>>])>>
    [] stmt.kind = "IfStmt" ->
         StmtsOps(stmt.inner, path, 1)
           \o <<SlotOp("take_if_stmt_last_brace_condition_ref", path, NoRef)>>
           \o BodyOps(stmt.cons[1], Append(path, ChildAt.cons))
           \o (IF stmt.alt = <<>> THEN <<>>
               ELSE (IF stmt.alt[1].kind = "IfStmt" /\ stmt.alt[1].alt = <<>>
                     THEN <<SlotOp("store_if_stmt_last_brace_condition_ref",
                                   path,
                                   [ref |-> Append(path, ChildAt.cons),
                                    for |-> Append(path, ChildAt.alt)])>>
                     ELSE <<>>)
                      \o (IF stmt.alt[1].kind = "IfStmt"
                          THEN StmtOps(stmt.alt[1], Append(path, ChildAt.alt))
                          ELSE BodyOps(stmt.alt[1], Append(path, ChildAt.alt))))
    [] stmt.kind = "WhileStmt" -> BodyOps(stmt.cons[1], Append(path, ChildAt.cons))
    [] OTHER -> StmtsOps(stmt.inner, path, 1)

StmtsOps(stmts, path, i) ==
  IF i > Len(stmts) THEN <<>>
  ELSE StmtOps(stmts[i], Append(path, i)) \o StmtsOps(stmts, path, i + 1)

\* gen_conditional_brace_body: the reference it may store, then its body
BodyOps(body_node, path) ==
  <<SlotOp("gen_conditional_brace_body", path,
           IF IsExprStmtOrBodyWithSingleExprStmt(body_node)
           THEN [ref |-> path,
                 for |-> IF body_node.kind = "ExprStmt" THEN path
                         ELSE Append(path, 1)]
           ELSE NoRef)>>
    \o (IF body_node.kind = "BlockStmt" THEN StmtsOps(body_node.inner, path, 1)
        ELSE StmtOps(body_node, path))

SemiColonsValues == {"always", "prefer", "asi"}

SlotInit ==
  /\ Idle
  /\ \E name \in DOMAIN SlotPrograms, sc \in SemiColonsValues :
       /\ unit_in = [fn |-> "gen_statements", program |-> name,
                     semi_colons |-> sc]
       /\ unit_out = [fn |-> "gen_statements",
                      ops |-> StmtsOps(SlotPrograms[name], <<>>, 1),
                      if_stmt_last_brace_condition_ref |-> NoRef,
                      expr_stmt_single_line_parent_brace_ref |-> NoRef,
                      log |-> <<>>]
  /\ str_in = NoStr
  /\ str_out = NoStr
  /\ paren_in = NoParen
  /\ paren_out = NoParen

SlotAt(op) ==
  /\ unit_in.fn = "gen_statements"
  /\ unit_out.ops # <<>>
  /\ Head(unit_out.ops).op = op

Event(ev, by, got) == [ev |-> ev, by |-> by, got |-> got]

\* one call is made: the slots and the record of the calls change
SlotStep(if_ref, expr_ref, events) ==
  /\ unit_out' = [unit_out EXCEPT
                    !.ops = Tail(@),
                    !.if_stmt_last_brace_condition_ref = if_ref,
                    !.expr_stmt_single_line_parent_brace_ref = expr_ref,
                    !.log = @ \o events]
  /\ UNCHANGED <<genVars, unit_in, strVars, parenVars>>

\* Context::take_*: the slot is empty after it
Take(slot) == NoRef

\* gen_if_stmt: the options of the consequent are built, after the test
TakeIfStmtLastBraceConditionRef ==
  /\ SlotAt("take_if_stmt_last_brace_condition_ref")
  /\ SlotStep(Take(unit_out.if_stmt_last_brace_condition_ref),
              unit_out.expr_stmt_single_line_parent_brace_ref,
              <<Event("take_if", Head(unit_out.ops).node,
                      unit_out.if_stmt_last_brace_condition_ref)>>)

\* gen_if_stmt: the alternate is an if statement without alternate
StoreIfStmtLastBraceConditionRef ==
  /\ SlotAt("store_if_stmt_last_brace_condition_ref")
  /\ SlotStep(Head(unit_out.ops).value,
              unit_out.expr_stmt_single_line_parent_brace_ref,
              <<Event("store_if", Head(unit_out.ops).node,
                      Head(unit_out.ops).value)>>)

\* gen_conditional_brace_body: store the brace condition if ASI and the
\* body is an expression statement
StoreExprStmtSingleLineParentBraceRef ==
  /\ SlotAt("gen_conditional_brace_body")
  /\ IF unit_in.semi_colons = "asi" /\ Head(unit_out.ops).value # NoRef
     THEN SlotStep(unit_out.if_stmt_last_brace_condition_ref,
                   Head(unit_out.ops).value,
                   <<Event("store_asi", Head(unit_out.ops).node,
                           Head(unit_out.ops).value)>>)
     ELSE SlotStep(unit_out.if_stmt_last_brace_condition_ref,
                   unit_out.expr_stmt_single_line_parent_brace_ref, <<>>)

\* gen_expr_stmt is called
GenExprStmt ==
  /\ SlotAt("gen_expr_stmt")
  /\ SlotStep(unit_out.if_stmt_last_brace_condition_ref,
              unit_out.expr_stmt_single_line_parent_brace_ref,
              <<Event("gen_expr_stmt", Head(unit_out.ops).node,
                      unit_out.expr_stmt_single_line_parent_brace_ref)>>)

\* gen_expr_stmt after gen_inner: with semicolons it returns, without them
\* gen_for_prefix_semi_colon_insertion takes the reference when a
\* semicolon is to be added
GenForPrefixSemiColonInsertion ==
  /\ SlotAt("gen_for_prefix_semi_colon_insertion")
  /\ IF unit_in.semi_colons = "asi" /\ Head(unit_out.ops).value.ref # <<>>
     THEN SlotStep(unit_out.if_stmt_last_brace_condition_ref,
                   Take(unit_out.expr_stmt_single_line_parent_brace_ref),
                   <<Event("take_asi", Head(unit_out.ops).node,
                           unit_out.expr_stmt_single_line_parent_brace_ref)>>)
     ELSE SlotStep(unit_out.if_stmt_last_brace_condition_ref,
                   unit_out.expr_stmt_single_line_parent_brace_ref, <<>>)

SlotNext ==
  \/ TakeIfStmtLastBraceConditionRef
  \/ StoreIfStmtLastBraceConditionRef
  \/ StoreExprStmtSingleLineParentBraceRef
  \/ GenExprStmt
  \/ GenForPrefixSemiColonInsertion

SlotSpec == SlotInit /\ [][SlotNext]_vars

SlotRun == unit_in.fn = "gen_statements"

SlotLog == IF SlotRun THEN unit_out.log ELSE <<>>

IsInside(path, body) ==
  Len(body) <= Len(path) /\ SubSeq(path, 1, Len(body)) = body

\* the value stored by the event i is taken later, by the node it is for
TakenByOwner(i, take) ==
  \E j \in (i + 1)..Len(SlotLog) :
    /\ SlotLog[j].ev = take
    /\ SlotLog[j].got = SlotLog[i].got
    /\ SlotLog[j].by = SlotLog[i].got.for

\* C16: a brace condition stored for automatic semicolon insertion is taken
\* by the expression statement that is the body it was stored for and by
\* no other, none is pending when an expression statement outside that
\* body is generated, and every one has been taken when generation ends.
C16_AsiRefTakenByItsBody ==
  SlotRun =>
    /\ \A i \in DOMAIN SlotLog :
         /\ (SlotLog[i].ev = "take_asi" /\ SlotLog[i].got # NoRef)
              => SlotLog[i].got.for = SlotLog[i].by
         /\ (SlotLog[i].ev = "gen_expr_stmt" /\ SlotLog[i].got # NoRef)
              => IsInside(SlotLog[i].by, SlotLog[i].got.ref)
    /\ unit_out.ops = <<>> =>
         /\ unit_out.expr_stmt_single_line_parent_brace_ref = NoRef
         /\ \A i \in DOMAIN SlotLog :
              SlotLog[i].ev = "store_asi" => TakenByOwner(i, "take_asi")

\* C17: the brace condition an if statement stores for its `else if` is
\* taken by that `else if` and by no other if statement, and it has been
\* taken when generation ends.
C17_IfRefTakenByItsElseIf ==
  SlotRun =>
    /\ \A i \in DOMAIN SlotLog :
         (SlotLog[i].ev = "take_if" /\ SlotLog[i].got # NoRef)
           => SlotLog[i].got.for = SlotLog[i].by
    /\ unit_out.ops = <<>> =>
         /\ unit_out.if_stmt_last_brace_condition_ref = NoRef
         /\ \A i \in DOMAIN SlotLog :
              SlotLog[i].ev = "store_if" => TakenByOwner(i, "take_if")

(***************************************************************************)
(* get_stmt_groups on its own.  A statement is [kind, src, gap, height]:   *)
(* gap is its first line minus the last line of the statement before it    *)
(* (1: the next line, 2: one line between), height its number of lines.    *)
(***************************************************************************)
MaxDecls == 3

MaxGap == 3

Decl(kind, src, gap, height) ==
  [kind |-> kind, src |-> src, gap |-> gap, height |-> height]

\* the StmtGroupKind match of get_stmt_groups
StmtGroupKindOf(stmt) ==
  CASE stmt.kind = "ImportDecl" -> "Imports"
    [] stmt.kind = "ExportAll" -> "Exports"
    [] stmt.kind = "NamedExport" /\ stmt.src -> "Exports"
    [] OTHER -> "Other"

\* start_line_fast and end_line_fast of the statement i
DeclEndLine(stmts, i) ==
  LET RECURSIVE end(_)
      end(j) == IF j = 0 THEN 0
                ELSE end(j - 1) + stmts[j].gap + stmts[j].height - 1
  IN end(i)

DeclStartLine(stmts, i) == DeclEndLine(stmts, i) - stmts[i].height + 1

RECURSIVE GetStmtGroupsOfDecls(_, _, _, _)
\* get_stmt_groups from the statement i on; nodes are indexes into stmts
GetStmtGroupsOfDecls(stmts, i, groups, last_end_line) ==
  IF i > Len(stmts) THEN groups
  ELSE LET k == StmtGroupKindOf(stmts[i])
           previous_last_end_line ==
             IF k = "Other" THEN 0 ELSE DeclEndLine(stmts, i)
           is_same_group ==
             /\ groups # <<>>
             /\ IsSameGroup(groups[Len(groups)].kind, k, last_end_line,
                            DeclStartLine(stmts, i))
       IN GetStmtGroupsOfDecls(
            stmts, i + 1,
            IF is_same_group
            THEN [groups EXCEPT ![Len(groups)].nodes = Append(@, i)]
            ELSE Append(groups, [kind |-> k, nodes |-> <<i>>]),
            previous_last_end_line)

\* the statements the parser can produce after the first one
DeclChoices ==
  {Decl("ImportDecl", TRUE, g, h) : g \in 0..MaxGap, h \in 1..2}
    \cup {Decl("ExportAll", TRUE, g, 1) : g \in 0..MaxGap}
    \cup {Decl("NamedExport", src, g, 1) : src \in Bool, g \in 0..MaxGap}

FirstDeclChoices == {d \in DeclChoices : d.gap = 1}

GroupInputs(n) ==
  {[fn |-> "get_stmt_groups", stmts |-> <<f>> \o rest] :
     f \in FirstDeclChoices, rest \in [1..(n - 1) -> DeclChoices]}

GroupInit ==
  /\ Idle
  /\ \E n \in 2..MaxDecls : unit_in \in GroupInputs(n)
  /\ unit_out = NoUnit
  /\ str_in = NoStr
  /\ str_out = NoStr
  /\ paren_in = NoParen
  /\ paren_out = NoParen

GetStmtGroupsStep ==
  /\ unit_in.fn = "get_stmt_groups"
  /\ unit_out = NoUnit
  /\ unit_out' = [fn |-> "get_stmt_groups",
                  groups |-> GetStmtGroupsOfDecls(unit_in.stmts, 1, <<>>, 0)]
  /\ UNCHANGED <<genVars, unit_in, strVars, parenVars>>

GroupNext == GetStmtGroupsStep

GroupSpec == GroupInit /\ [][GroupNext]_vars

GroupDone == unit_out # NoUnit /\ unit_in.fn = "get_stmt_groups"

\* the group the statement i was put in
GroupOf(i) ==
  CHOOSE g \in 1..Len(unit_out.groups) :
    \E j \in 1..Len(unit_out.groups[g].nodes) : unit_out.groups[g].nodes[j] = i

\* the statements i and i + 1 are both imports or both re-exports
Consecutive(i) ==
  /\ StmtGroupKindOf(unit_in.stmts[i]) # "Other"
  /\ StmtGroupKindOf(unit_in.stmts[i]) = StmtGroupKindOf(unit_in.stmts[i + 1])

\* the lines between the statement i and the statement i + 1
LinesBetween(i) ==
  IF unit_in.stmts[i + 1].gap = 0 THEN 0 ELSE unit_in.stmts[i + 1].gap - 1

\* C20 as stated: consecutive imports (or re-exports) are put in different
\* groups exactly when more than one blank line lies between them.
C20_BrokenByMoreThanOneLine ==
  GroupDone =>
    \A i \in 1..(Len(unit_in.stmts) - 1) :
      Consecutive(i) => (GroupOf(i) # GroupOf(i + 1) <=> LinesBetween(i) > 1)

\* C20, amended: consecutive imports (or re-exports) are put in different
\* groups exactly when at least one line lies between them.
C20_BrokenByOneLine ==
  GroupDone =>
    \A i \in 1..(Len(unit_in.stmts) - 1) :
      Consecutive(i) => (GroupOf(i) # GroupOf(i + 1) <=> LinesBetween(i) >= 1)

\* three imports: the second on the line after the first, the third after
\* one line; the third is alone in its group
C20_Witness ==
  /\ GroupDone
  /\ Len(unit_in.stmts) = 3
  /\ \A i \in 1..3 : unit_in.stmts[i].kind = "ImportDecl"
  /\ unit_in.stmts[2].gap = 1
  /\ unit_in.stmts[3].gap = 2
  /\ unit_out.groups = <<[kind |-> "Imports", nodes |-> <<1, 2>>],
                         [kind |-> "Imports", nodes |-> <<3>>]>>

(***************************************************************************)
(* Sorted lists: the named specifiers of an import or export declaration   *)
(* and the declarations of a statement group.  The comparator is a         *)
(* parameter of the generators; a list is given by the rank the comparator *)
(* gives each element, and two elements of one rank compare Equal.         *)
(***************************************************************************)
MaxSorted == 3

SortRanks == 1..MaxSorted

NoItem == [none |-> TRUE]

\* nodes.enumerate() after sort_unstable_by: the old indexes in comparator
\* order; the order of elements that compare Equal is not specified
SortUnstableBy(nodes) ==
  {s \in [1..Len(nodes) -> 1..Len(nodes)] :
     /\ \A a, b \in 1..Len(nodes) : a # b => s[a] # s[b]
     /\ \A a, b \in 1..Len(nodes) : a < b => nodes[s[a]] <= nodes[s[b]]}

\* an old index -> new index map that counts the elements ranked lower
GetSortedIndexesByRank(nodes, sorted) ==
  [old \in 1..Len(nodes) |->
     1 + Cardinality({j \in 1..Len(nodes) : nodes[j] < nodes[old]})]

\* old_to_new_index of get_sorted_indexes, sorted being the sorted vector
GetSortedIndexesOf(nodes, sorted) ==
  [old \in 1..Len(nodes) |-> CHOOSE new \in 1..Len(nodes) : sorted[new] = old]

\* sort_by_sorted_indexes before the final unwrap: a slot holds the last
\* item stored into it, or nothing
SortedItems(items, sorted_indexes) ==
  [k \in 1..Len(items) |->
     IF \E i \in 1..Len(items) : sorted_indexes[i] = k
     THEN items[CHOOSE i \in 1..Len(items) :
                  /\ sorted_indexes[i] = k
                  /\ \A j \in (i + 1)..Len(items) : sorted_indexes[j] # k]
     ELSE NoItem]

\* the separator decided with the index in the source
GenSortedValueBySourceIndex(in, i, node_index) ==
  [node |-> i,
   sep |-> GetGeneratedTrailingComma(in.option, i = Len(in.nodes), in.multi_line)]

\* one round of the loop of gen_separated_values_with_result
GenSortedValue(in, i, node_index) ==
  [node |-> i,
   sep |-> GetGeneratedTrailingComma(in.option, node_index = Len(in.nodes), in.multi_line)]

\* the closure gen_separated_values_with_result hands to the layout:
\* the generated values in the order they are emitted
GenSeparatedValuesSorted(in, sorted_indexes) ==
  SortedItems([i \in 1..Len(in.nodes) |-> GenSortedValue(in, i, sorted_indexes[i])], sorted_indexes)

\* the generated statements of a group of gen_statements, in emitted order
GenStmtGroupSorted(in, sorted_indexes) ==
  SortedItems([i \in 1..Len(in.nodes) |-> [node |-> i, sep |-> ""]], sorted_indexes)

SortedLists == UNION {[1..n -> SortRanks] : n \in 0..MaxSorted}

SortInputs(fn) ==
  {[fn |-> fn, nodes |-> ns, sorter |-> so, option |-> o, multi_line |-> ml] :
     ns \in SortedLists, so \in BOOLEAN, o \in TrailingCommasValues, ml \in BOOLEAN}

\* the generators that hand a list to gen_separated_values
SeparatedValuesCallers ==
  {"gen_named_import_or_export_specifiers", "gen_object_lit", "gen_sequence_expr",
   "gen_type_lit", "gen_jsx_opening_element", "gen_object_pat", "gen_var_decl",
   "gen_type_parameters", "gen_array_like_nodes", "gen_parameters_or_arguments",
   "gen_extends_or_implements", "gen_decorators"}

SortFns == SeparatedValuesCallers \cup {"gen_statements_group"}

\* a caller that allows blank lines wherever an object-like list does
AllowBlankLinesOfObjectLike(caller) ==
  caller \in {"gen_named_import_or_export_specifiers", "gen_object_lit", "gen_type_lit", "gen_object_pat", "gen_array_like_nodes"}

\* allow_blank_lines of the parameters each caller builds
AllowBlankLines(caller) ==
  caller \in {"gen_object_lit", "gen_type_lit", "gen_object_pat", "gen_array_like_nodes"}

\* node_sorter of the parameters each caller builds: in.sorter tells if
\* the configured sort order of the list is other than maintain
NodeSorter(in) ==
  IF in.fn = "gen_named_import_or_export_specifiers" THEN in.sorter
  ELSE IF in.fn = "gen_statements_group" THEN in.sorter
  ELSE FALSE

\* the debug assertion of gen_separated_values_with_result
PanicsNotImplementedScenario(in) == NodeSorter(in) /\ AllowBlankLines(in.fn)

SortInit ==
  /\ Idle
  /\ \E fn \in SortFns : unit_in \in SortInputs(fn)
  /\ unit_out = NoUnit
  /\ str_in = NoStr
  /\ str_out = NoStr
  /\ paren_in = NoParen
  /\ paren_out = NoParen

\* the sorted indexes a generator works with: those of get_sorted_indexes
\* when it has a sorter, the indexes of the source otherwise
SortedIndexesChoices(in) ==
  IF NodeSorter(in)
  THEN {GetSortedIndexesOf(in.nodes, s) : s \in SortUnstableBy(in.nodes)}
  ELSE {[i \in 1..Len(in.nodes) |-> i]}

GenSeparatedValuesWithResult ==
  /\ unit_in.fn \in SeparatedValuesCallers
  /\ unit_out = NoUnit
  /\ IF PanicsNotImplementedScenario(unit_in)
     THEN unit_out' = [fn |-> unit_in.fn, panicked |-> TRUE]
     ELSE \E sorted_indexes \in SortedIndexesChoices(unit_in) :
            unit_out' = [fn |-> unit_in.fn, panicked |-> FALSE,
                         sorted_indexes |-> sorted_indexes,
                         values |-> GenSeparatedValuesSorted(unit_in, sorted_indexes)]
  /\ UNCHANGED <<genVars, unit_in, strVars, parenVars>>

GenStatementsGroup ==
  /\ unit_in.fn = "gen_statements_group"
  /\ unit_out = NoUnit
  /\ \E sorted_indexes \in SortedIndexesChoices(unit_in) :
       unit_out' = [fn |-> unit_in.fn, panicked |-> FALSE,
                    sorted_indexes |-> sorted_indexes,
                    values |-> GenStmtGroupSorted(unit_in, sorted_indexes)]
  /\ UNCHANGED <<genVars, unit_in, strVars, parenVars>>

SortNext == GenSeparatedValuesWithResult \/ GenStatementsGroup

SortSpec == SortInit /\ [][SortNext]_vars

\* a list was sorted by its generator
SortDone ==
  /\ unit_out # NoUnit
  /\ unit_in.fn \in SortFns
  /\ NodeSorter(unit_in)
  /\ ~unit_out.panicked

\* the place in the output of the element at index i of the source
PlaceOf(i) == CHOOSE k \in 1..Len(unit_out.values) : unit_out.values[k].node = i

C22_SortEmitsEachOnce ==
  SortDone =>
    /\ \A k \in 1..Len(unit_in.nodes) :
         Cardinality({i \in 1..Len(unit_in.nodes) : unit_out.sorted_indexes[i] = k}) = 1
    /\ Len(unit_out.values) = Len(unit_in.nodes)
    /\ \A i \in 1..Len(unit_in.nodes) :
         Cardinality({k \in 1..Len(unit_out.values) : unit_out.values[k] # NoItem /\ unit_out.values[k].node = i}) = 1

\* three declarations, two of them ranked equal and the first ranked last,
\* were sorted
C22_Witness ==
  /\ SortDone
  /\ unit_in.fn = "gen_statements_group"
  /\ unit_in.nodes = <<2, 1, 1>>
  /\ unit_out.values[3].node = 1

\* C23: in a sorted separated list the trailing-separator policy decides
\* the separator of the element emitted last, and every other element is
\* followed by a plain separator.
C23_TrailingSeparatorOnLastEmitted ==
  (SortDone /\ unit_in.fn = "gen_named_import_or_export_specifiers") =>
    \A k \in 1..Len(unit_out.values) :
      unit_out.values[k].sep =
        IF k < Len(unit_out.values) THEN ","
        ELSE GetGeneratedTrailingComma(unit_in.option, TRUE, unit_in.multi_line)

\* a specifier list whose last element in the source is emitted first was
\* generated under the policy never
C23_Witness ==
  /\ SortDone
  /\ unit_in.fn = "gen_named_import_or_export_specifiers"
  /\ unit_in.nodes = <<2, 3, 1>>
  /\ unit_in.option = "never"
  /\ unit_out.values[1].node = 3
  /\ unit_out.values[1].sep = ","
  /\ unit_out.values[3].sep = ""

\* C24: no caller asks gen_separated_values for sorting together with
\* blank-line preservation: the debug assertion that guards the
\* combination fires for no caller, list or configuration.
C24_DebugAssertionNeverFires ==
  (unit_out # NoUnit /\ unit_in.fn \in SeparatedValuesCallers) => ~unit_out.panicked

\* the one caller that passes a sorter has generated a list of two
\* specifiers with it
C24_Witness ==
  /\ unit_out # NoUnit
  /\ unit_in.fn = "gen_named_import_or_export_specifiers"
  /\ NodeSorter(unit_in)
  /\ Len(unit_in.nodes) = 2
  /\ ~unit_out.panicked
(***************************************************************************)
(* Nested conditional expressions and conditional types.  A tree is an     *)
(* identifier, a parenthesized tree or a conditional with a test, a        *)
(* consequent and an alternate; positions are offsets in the text of the   *)
(* tree.  The test of a conditional is never a bare conditional.           *)
(***************************************************************************)
MaxCondDepth == 3

Leaf == [kind |-> "Ident"]

ParenOf(e) == [kind |-> "Paren", expr |-> e]

Cond(t, c, a) == [kind |-> "Cond", test |-> t, cons |-> c, alt |-> a]

RECURSIVE CondTrees(_)
CondTrees(d) ==
  IF d = 0 THEN {Leaf}
  ELSE LET sub == CondTrees(d - 1)
           flat == {Leaf, ParenOf(Leaf), Cond(Leaf, Leaf, Leaf), ParenOf(Cond(Leaf, Leaf, Leaf))}
       IN {Leaf} \cup {ParenOf(e) : e \in sub \cap flat}
            \cup {Cond(t, c, a) : t \in {Leaf, ParenOf(Cond(Leaf, Leaf, Leaf))}, c \in sub \cap flat, a \in sub}

\* the text between test and consequent: " ? " or " extends T ? "
CondGap(fn) == IF fn = "gen_conditional_type" THEN 2 ELSE 1

RECURSIVE Width(_, _)
Width(fn, t) ==
  CASE t.kind = "Ident" -> 1
    [] t.kind = "Paren" -> 2 + Width(fn, t.expr)
    [] OTHER -> Width(fn, t.test) + CondGap(fn) + Width(fn, t.cons) + 1 + Width(fn, t.alt)

\* the node of a tree that starts at lo: its kind, its span and the start
\* of its alternate (false type)
CondNode(fn, t, lo) ==
  [kind |-> t.kind, lo |-> lo, hi |-> lo + Width(fn, t),
   alt_lo |-> IF t.kind = "Cond" THEN lo + Width(fn, t.test) + CondGap(fn) + Width(fn, t.cons) + 1 ELSE 0]

\* calls in which a generator reads the stored info after its children
RECURSIVE CondCallsChildrenFirst(_, _, _, _)
CondCallsChildrenFirst(fn, t, lo, ancestors) ==
  LET node == CondNode(fn, t, lo)
      call == <<[node |-> node, parent_stack |-> ancestors]>>
      inner == <<node>> \o ancestors
  IN CASE t.kind = "Ident" -> call
       [] t.kind = "Paren" -> CondCallsChildrenFirst(fn, t.expr, lo + 1, inner) \o call
       [] OTHER -> CondCallsChildrenFirst(fn, t.test, lo, inner)
                   \o CondCallsChildrenFirst(fn, t.cons, lo + Width(fn, t.test) + CondGap(fn), inner)
                   \o CondCallsChildrenFirst(fn, t.alt, node.alt_lo, inner)
                   \o call

\* the calls of gen_node for a tree, in order, each with the parent stack
\* it runs under (nearest ancestor first)
RECURSIVE CondCalls(_, _, _, _)
CondCalls(fn, t, lo, ancestors) ==
  LET node == CondNode(fn, t, lo)
      call == <<[node |-> node, parent_stack |-> ancestors]>>
      inner == <<node>> \o ancestors
  IN CASE t.kind = "Ident" -> call
       [] t.kind = "Paren" -> call \o CondCalls(fn, t.expr, lo + 1, inner)
       [] OTHER -> call
                   \o CondCalls(fn, t.test, lo, inner)
                   \o CondCalls(fn, t.cons, lo + Width(fn, t.test) + CondGap(fn), inner)
                   \o CondCalls(fn, t.alt, node.alt_lo, inner)

\* the loop of get_top_most_data
RECURSIVE GetTopMostNode(_, _)
GetTopMostNode(top_most_node, ancestors) ==
  IF ancestors = <<>> THEN top_most_node
  ELSE IF Head(ancestors).kind = "Cond" /\ Head(ancestors).alt_lo = top_most_node.lo
       THEN GetTopMostNode(Head(ancestors), Tail(ancestors))
       ELSE top_most_node

\* get_top_most_data with get_or_set_top_most_info, on the record of the
\* generation: the infos stored by position, the lookups done, the failures
GetTopMostData(call, gen) ==
  LET top_most_node == GetTopMostNode(call.node, call.parent_stack)
      is_top_most == top_most_node.lo = call.node.lo /\ top_most_node.hi = call.node.hi
  IN IF is_top_most
     THEN [gen EXCEPT !.infos = @ \cup {top_most_node.lo}]
     ELSE IF top_most_node.lo \in gen.infos
          THEN [gen EXCEPT !.lookups = @ + 1]
          ELSE [gen EXCEPT !.panicked = TRUE]

CondFns == {"gen_conditional_expr", "gen_conditional_type"}

CondInit ==
  /\ Idle
  /\ \E fn \in CondFns, t \in CondTrees(MaxCondDepth) :
       /\ unit_in = [fn |-> fn, tree |-> t]
       /\ unit_out = [fn |-> fn, calls |-> CondCalls(fn, t, 0, <<>>), infos |-> {}, lookups |-> 0, panicked |-> FALSE]
  /\ str_in = NoStr
  /\ str_out = NoStr
  /\ paren_in = NoParen
  /\ paren_out = NoParen

CondRunning == unit_in.fn \in CondFns /\ ~unit_out.panicked /\ unit_out.calls # <<>>

GenConditionalExpr ==
  /\ CondRunning
  /\ unit_in.fn = "gen_conditional_expr"
  /\ Head(unit_out.calls).node.kind = "Cond"
  /\ unit_out' = GetTopMostData(Head(unit_out.calls), [unit_out EXCEPT !.calls = Tail(@)])
  /\ UNCHANGED <<genVars, unit_in, strVars, parenVars>>

GenConditionalType ==
  /\ CondRunning
  /\ unit_in.fn = "gen_conditional_type"
  /\ Head(unit_out.calls).node.kind = "Cond"
  /\ unit_out' = GetTopMostData(Head(unit_out.calls), [unit_out EXCEPT !.calls = Tail(@)])
  /\ UNCHANGED <<genVars, unit_in, strVars, parenVars>>

GenNonConditional ==
  /\ CondRunning
  /\ Head(unit_out.calls).node.kind # "Cond"
  /\ unit_out' = [unit_out EXCEPT !.calls = Tail(@)]
  /\ UNCHANGED <<genVars, unit_in, strVars, parenVars>>

CondNext == GenConditionalExpr \/ GenConditionalType \/ GenNonConditional

CondSpec == CondInit /\ [][CondNext]_vars

\* C25: a conditional expression or conditional type that is not top-most
\* always finds the info of its top-most ancestor stored: the lookup in
\* get_or_set_top_most_info never fails.
C25_TopMostInfoStored ==
  unit_in.fn \in CondFns => ~unit_out.panicked

\* a chain of three conditionals through the alternates was generated: the
\* second and the third each looked the info of the first up
C25_Witness ==
  /\ unit_in.fn = "gen_conditional_type"
  /\ unit_in.tree.kind = "Cond"
  /\ unit_in.tree.alt.kind = "Cond"
  /\ unit_in.tree.alt.alt.kind = "Cond"
  /\ unit_out.calls = <<>>
  /\ unit_out.lookups >= 2
  /\ ~unit_out.panicked

(***************************************************************************)
(* The value of a string literal: outside JSX a backslash and the          *)
(* character after it denote one character, a quote or a backslash         *)
(* denoting itself.                                                        *)
(***************************************************************************)
Escaped(c) == IF c \in {DQ, SQ, BS} THEN c ELSE "escaped " \o c

RECURSIVE Denoted(_)
Denoted(body) ==
  IF body = <<>> THEN <<>>
  ELSE IF Head(body) = BS
       THEN IF Len(body) >= 2 THEN <<Escaped(body[2])>> \o Denoted(Tail(Tail(body)))
            ELSE <<"dangling backslash">>
       ELSE <<Head(body)>> \o Denoted(Tail(body))

LiteralBody(text) == SubSeq(text, 2, Len(text) - 1)

\* an escape of a quote other than the delimiter
RECURSIVE HasNeedlessQuoteEscape(_, _)
HasNeedlessQuoteEscape(body, delimiter) ==
  IF Len(body) < 2 THEN FALSE
  ELSE IF Head(body) = BS
       THEN (body[2] \in {DQ, SQ} /\ body[2] # delimiter) \/ HasNeedlessQuoteEscape(Tail(Tail(body)), delimiter)
       ELSE HasNeedlessQuoteEscape(Tail(body), delimiter)

\* C26: in the emitted literal no quote character of the kind that is not
\* the delimiter is escaped with a backslash, whichever quote the source
\* literal used.
C26_NoNeedlessQuoteEscape ==
  str_out # NoStr => ~HasNeedlessQuoteEscape(LiteralBody(str_out.text), Delimiter(str_out.text))

\* a single-quoted literal that escapes a double quote was emitted
C26_Witness ==
  /\ str_out # NoStr
  /\ ~str_in.jsx
  /\ Head(str_in.raw) = SQ
  /\ HasNeedlessQuoteEscape(LiteralBody(str_in.raw), SQ)
  /\ Delimiter(str_out.text) = SQ

\* C27: outside JSX the emitted literal is a literal and denotes the
\* value of the source literal, under every quote style.
C27_ValuePreserved ==
  (str_out # NoStr /\ ~str_in.jsx) =>
    /\ IsLiteralBody(LiteralBody(str_out.text), Delimiter(str_out.text), FALSE)
    /\ Denoted(LiteralBody(str_out.text)) = Denoted(LiteralBody(str_in.raw))

\* a single-quoted literal with an escaped backslash directly before a
\* double quote was emitted between double quotes
C27_Witness ==
  /\ str_out # NoStr
  /\ ~str_in.jsx
  /\ str_in.raw = <<SQ, BS, BS, DQ, SQ>>
  /\ str_in.quote_style = "alwaysDouble"
  /\ str_out.text = <<DQ, BS, BS, BS, DQ, DQ>>

\* C28: for a JSX attribute value the characters emitted between the
\* delimiters are those of the source: no backslash is added or removed.
C28_JsxBodyUnchanged ==
  (str_out # NoStr /\ str_in.jsx) => LiteralBody(str_out.text) = LiteralBody(str_in.raw)
(***************************************************************************)
(* The items generated before a comment.  A run of comments is given by    *)
(* the lines of the source: each comment starts gap lines after the end of *)
(* what precedes it and covers height + 1 lines; last_node, when there is  *)
(* one, ends at line 1.  The items are the signals and texts in order, a   *)
(* generated comment being the item "comment".                             *)
(***************************************************************************)
MaxRun == 2

MaxBlankGap == 3

Repeat(item, n) == [i \in 1..n |-> item]

\* as many line breaks before the comment as the source has
GenCommentKeepingSourceLines(comment, last_node, separate_with_newlines) ==
  (IF last_node.present
   THEN IF separate_with_newlines \/ comment.start_line > last_node.end_line
        THEN Repeat("NewLine", IF comment.start_line > last_node.end_line THEN comment.start_line - last_node.end_line ELSE 1)
        ELSE <<>>
   ELSE <<>>) \o <<"comment">>

\* gen_comment_based_on_last_node for a comment gen_comment generates
GenCommentBasedOnLastNodeItems(comment, last_node, separate_with_newlines) ==
  LET pushed_ignore_new_lines ==
        /\ last_node.present
        /\ ~(separate_with_newlines \/ comment.start_line > last_node.end_line)
        /\ comment.kind = "Line"
      before ==
        IF last_node.present
        THEN IF separate_with_newlines \/ comment.start_line > last_node.end_line
             THEN <<"NewLine">> \o (IF comment.start_line > last_node.end_line + 1 THEN <<"NewLine">> ELSE <<>>)
             ELSE IF comment.kind = "Line" THEN <<"StartForceNoNewLines", " ">>
             ELSE IF last_node.block_comment THEN <<" ">>
             ELSE <<>>
        ELSE <<>>
  IN before \o <<"comment">> \o (IF pushed_ignore_new_lines THEN <<"FinishForceNoNewLines">> ELSE <<>>)

\* the loop of gen_comment_collection; that of gen_comments_as_statements
\* when separates_always
RECURSIVE GenCommentLoop(_, _, _, _)
GenCommentLoop(cs, last_node, separates_always, next_node_start_line) ==
  IF cs = <<>> THEN <<>>
  ELSE LET comment == Head(cs)
           separate_with_newlines ==
             IF separates_always THEN TRUE
             ELSE IF next_node_start_line # 0 THEN comment.start_line # next_node_start_line
             ELSE FALSE
       IN IF comment.handled
          THEN GenCommentLoop(Tail(cs), last_node, separates_always, next_node_start_line)
          ELSE GenCommentBasedOnLastNodeItems(comment, last_node, separate_with_newlines)
               \o GenCommentLoop(Tail(cs), [present |-> TRUE, end_line |-> comment.end_line, block_comment |-> comment.kind = "Block"], separates_always, next_node_start_line)

\* the comments of a run, placed on their lines after line `line`
RECURSIVE PlaceRun(_, _, _)
PlaceRun(run, line, after_line_comment) ==
  IF run = <<>> THEN <<>>
  ELSE LET c == Head(run)
           start_line == line + c.gap
       IN <<[kind |-> c.kind, start_line |-> start_line, end_line |-> start_line + c.height, handled |-> c.handled]>>
          \o PlaceRun(Tail(run), start_line + c.height, c.kind = "Line")

\* nothing follows a line comment on its line, and a line comment covers
\* one line
RECURSIVE IsRun(_, _)
IsRun(run, after_line_comment) ==
  IF run = <<>> THEN TRUE
  ELSE /\ (after_line_comment => Head(run).gap >= 1)
       /\ (Head(run).kind = "Line" => Head(run).height = 0)
       /\ IsRun(Tail(run), Head(run).kind = "Line")

RunChoices(n) ==
  {r \in [1..n -> [kind : {"Line", "Block"}, gap : 0..MaxBlankGap, height : 0..1, handled : BOOLEAN]] : IsRun(r, FALSE)}

CommentFns == {"gen_comments_as_statements", "gen_comment_collection"}

\* last_node: none, a node, or a block comment; next_node: none (0) or
\* the line the next node starts at
CommentInputs(n) ==
  {[fn |-> fn, comments |-> PlaceRun(r, 1, FALSE), last_node |-> ln, next_node_start_line |-> nx] :
     fn \in CommentFns, r \in RunChoices(n),
     ln \in {[present |-> FALSE, end_line |-> 1, block_comment |-> FALSE],
             [present |-> TRUE, end_line |-> 1, block_comment |-> FALSE],
             [present |-> TRUE, end_line |-> 1, block_comment |-> TRUE]},
     nx \in 0..2}

CommentInit ==
  /\ Idle
  /\ \E n \in 1..MaxRun : unit_in \in CommentInputs(n)
  /\ unit_out = NoUnit
  /\ str_in = NoStr
  /\ str_out = NoStr
  /\ paren_in = NoParen
  /\ paren_out = NoParen

GenCommentsAsStatementsItems ==
  /\ unit_in.fn = "gen_comments_as_statements"
  /\ unit_out = NoUnit
  /\ unit_out' = [fn |-> unit_in.fn, items |-> GenCommentLoop(unit_in.comments, unit_in.last_node, TRUE, 0)]
  /\ UNCHANGED <<genVars, unit_in, strVars, parenVars>>

GenCommentCollectionItems ==
  /\ unit_in.fn = "gen_comment_collection"
  /\ unit_out = NoUnit
  /\ unit_out' = [fn |-> unit_in.fn, items |-> GenCommentLoop(unit_in.comments, unit_in.last_node, FALSE, unit_in.next_node_start_line)]
  /\ UNCHANGED <<genVars, unit_in, strVars, parenVars>>

CommentNext == GenCommentsAsStatementsItems \/ GenCommentCollectionItems

CommentSpec == CommentInit /\ [][CommentNext]_vars

\* the line breaks among the items i..j
NewLinesIn(items, i, j) == Cardinality({k \in i..j : items[k] = "NewLine"})

\* C29: between a comment and the node or comment emitted before it at
\* most two line breaks are emitted, however many blank lines the source
\* has between them: no stretch of items free of comments holds more than
\* two line breaks.
C29_AtMostOneBlankLine ==
  (unit_out # NoUnit /\ unit_in.fn \in CommentFns) =>
    \A i, j \in 1..Len(unit_out.items) :
      (i <= j /\ \A k \in i..j : unit_out.items[k] # "comment") => NewLinesIn(unit_out.items, i, j) <= 2

\* a comment three lines below the end of the node before it was
\* generated after two line breaks
C29_Witness ==
  /\ unit_out # NoUnit
  /\ unit_in.fn = "gen_comments_as_statements"
  /\ unit_in.last_node.present
  /\ Len(unit_in.comments) = 1
  /\ unit_in.comments[1].start_line = 1 + MaxBlankGap
  /\ unit_out.items = <<"NewLine", "NewLine", "comment">>
(***************************************************************************)
(* Generated items that are used in more than one branch: the children of  *)
(* a JSX element and the body of a conditional brace body.  The children   *)
(* of an element are numbered 1..n, its opening element is node 0 and its  *)
(* closing element node n + 1; the statements of a block body are numbered *)
(* 1..n and a body that is no block is node 0.  dispatched lists the nodes *)
(* handed to gen_node, in order.                                           *)
(***************************************************************************)
MaxJsxChildren == 3

JsxChildKinds == {"JSXText", "JSXBlankText", "JSXSpaceExpr", "JSXExprContainer", "JSXElement"}

\* get_filtered_jsx_children: the children kept, by number
RECURSIVE FilterLoop(_, _, _, _, _)
FilterLoop(kinds, i, children, current_jsx_space_exprs, found_non_space_child) ==
  IF i > Len(kinds) THEN children \o current_jsx_space_exprs
  ELSE IF found_non_space_child /\ kinds[i] = "JSXSpaceExpr"
       THEN FilterLoop(kinds, i + 1, children, Append(current_jsx_space_exprs, i), found_non_space_child)
       ELSE IF kinds[i] = "JSXBlankText"
            THEN FilterLoop(kinds, i + 1, children, current_jsx_space_exprs, found_non_space_child)
            ELSE FilterLoop(kinds, i + 1, Append(children, i), <<>>, TRUE)

GetFilteredJsxChildren(kinds) == FilterLoop(kinds, 1, <<>>, <<>>, FALSE)

\* get_force_use_multi_lines of gen_jsx_with_opening_and_closing
GetForceUseMultiLines(in) ==
  IF \E i \in 1..Len(in.children) : in.children[i] = "JSXElement" THEN TRUE
  ELSE IF in.prefer_single_line THEN FALSE
  ELSE IF in.children # <<>> THEN in.first_child_on_new_line
  ELSE FALSE

\* a member generated anew whether or not it comes with its items
GenMemberAnew(member, gen) ==
  [gen EXCEPT !.dispatched = Append(@, member.node), !.items = Append(@, member.node)]

\* gen_members for one member: the items it comes with, or gen_node
GenMember(member, gen) ==
  IF member.print_items
  THEN [gen EXCEPT !.items = Append(@, member.node)]
  ELSE [gen EXCEPT !.dispatched = Append(@, member.node), !.items = Append(@, member.node)]

RECURSIVE GenMembers(_, _)
GenMembers(members, gen) ==
  IF members = <<>> THEN gen
  ELSE GenMembers(Tail(members), GenMember(Head(members), gen))

\* gen_for_new_lines: the nodes whose items the branch holds
GenForNewLines(generated_children, log) ==
  GenMembers(generated_children, [dispatched |-> log, items |-> <<>>])

\* gen_for_single_line
GenForSingleLine(generated_children, log) ==
  [dispatched |-> log, items |-> [i \in 1..Len(generated_children) |-> generated_children[i].node]]

\* gen_jsx_children after the opening element: the children are generated
\* once, then laid out for new lines and, unless forced, for a single line
GenJsxChildren(in, log) ==
  LET filtered_children == GetFilteredJsxChildren(in.children)
      generated_children == [i \in 1..Len(filtered_children) |-> [node |-> filtered_children[i], print_items |-> TRUE]]
      after_children == log \o filtered_children
      multi == GenForNewLines(generated_children, after_children)
  IN IF GetForceUseMultiLines(in)
     THEN [dispatched |-> multi.dispatched, branches |-> <<multi.items>>]
     ELSE LET single == GenForSingleLine(generated_children, multi.dispatched)
          IN [dispatched |-> single.dispatched, branches |-> <<multi.items, single.items>>]

\* gen_jsx_with_opening_and_closing
GenJsxWithOpeningAndClosing(in) ==
  LET children == GenJsxChildren(in, <<0>>)
  IN [children EXCEPT !.dispatched = Append(@, Len(in.children) + 1)]

\* the body of gen_conditional_brace_body: the statements of a block, or
\* the body node; the braces around the one list of items are conditions
GenConditionalBraceBodyNodes(in) ==
  LET nodes == IF in.body = "BlockStmt" THEN [i \in 1..in.stmts |-> i] ELSE <<0>>
  IN [dispatched |-> nodes, branches |-> <<nodes>>]

JsxInputs(n) ==
  {[fn |-> "gen_jsx_with_opening_and_closing", children |-> cs, prefer_single_line |-> p, first_child_on_new_line |-> f] :
     cs \in [1..n -> JsxChildKinds], p \in BOOLEAN, f \in BOOLEAN}

BraceBodyInputs ==
  {[fn |-> "gen_conditional_brace_body", body |-> b, stmts |-> IF b = "BlockStmt" THEN k ELSE 0] :
     b \in {"BlockStmt", "ExprStmt", "EmptyStmt"}, k \in 0..MaxStmts}

ReuseInit ==
  /\ Idle
  /\ \/ \E n \in 0..MaxJsxChildren : unit_in \in JsxInputs(n)
     \/ unit_in \in BraceBodyInputs
  /\ unit_out = NoUnit
  /\ str_in = NoStr
  /\ str_out = NoStr
  /\ paren_in = NoParen
  /\ paren_out = NoParen

GenJsxElement ==
  /\ unit_in.fn = "gen_jsx_with_opening_and_closing"
  /\ unit_out = NoUnit
  /\ unit_out' = [fn |-> unit_in.fn] @@ GenJsxWithOpeningAndClosing(unit_in)
  /\ UNCHANGED <<genVars, unit_in, strVars, parenVars>>

GenConditionalBraceBodyStep ==
  /\ unit_in.fn = "gen_conditional_brace_body"
  /\ unit_out = NoUnit
  /\ unit_out' = [fn |-> unit_in.fn] @@ GenConditionalBraceBodyNodes(unit_in)
  /\ UNCHANGED <<genVars, unit_in, strVars, parenVars>>

ReuseNext == GenJsxElement \/ GenConditionalBraceBodyStep

ReuseSpec == ReuseInit /\ [][ReuseNext]_vars

ReuseFns == {"gen_jsx_with_opening_and_closing", "gen_conditional_brace_body"}

\* C30: every node is passed to the dispatcher at most once, also where
\* its generated items are used in more than one branch (the children of
\* a JSX element laid out for several lines and for one line, the body of
\* a conditional brace body).
C30_DispatchedAtMostOnce ==
  (unit_out # NoUnit /\ unit_in.fn \in ReuseFns) =>
    \A i, j \in 1..Len(unit_out.dispatched) :
      i # j => unit_out.dispatched[i] # unit_out.dispatched[j]

\* the two children of a JSX element are held by the branch for several
\* lines and by the branch for one line
C30_Witness ==
  /\ unit_out # NoUnit
  /\ unit_in.fn = "gen_jsx_with_opening_and_closing"
  /\ unit_in.children = <<"JSXText", "JSXExprContainer">>
  /\ unit_out.branches = <<(<<1, 2>>), (<<1, 2>>)>>
  /\ unit_out.dispatched = <<0, 1, 2, 3>>
====
